---- MODULE Spec2Model ----
(***************************************************************************)
(* Model of the JWT token service of the e-commerce backend (package auth, *)
(* src/unnamed/part_000) together with the parts of golang-jwt/v5 that its *)
(* calls go through: NewNumericDate, SignedString, ParseWithClaims and the *)
(* default claims validator.                                               *)
(*                                                                         *)
(* Time is counted in ticks, TicksPerSecond ticks to the second, so that   *)
(* the truncation of a NumericDate to whole seconds is visible.  Strings   *)
(* are sequences of byte values, so that the JSON encoding of the payload  *)
(* is a conversion and not the identity.  The HMAC is symbolic: a          *)
(* signature is the triple of algorithm, key and signed text.              *)
(*                                                                         *)
(* The account service (src/account/service.go, with its repository) and   *)
(* the catalog service (its handlers and its PostgreSQL repository) are    *)
(* modelled over their tables.  A handler that sends two statements to the *)
(* database is two steps, so that other requests run between them.         *)
(***************************************************************************)
EXTENDS Integers, Sequences, FiniteSets, TLC

----------------------------------------------------------------------------
(* Bounds of the model *)

TicksPerSecond == 2
MaxNow == 3
MaxDuration == 2

----------------------------------------------------------------------------
(* Strings and their JSON encoding *)

\* U+FFFD as UTF-8, what encoding/json writes for an invalid byte
ReplacementChar == <<239, 191, 189>>

\* utf8.DecodeRuneInString: the width of the encoded rune the string starts
\* with, 0 when it starts with a byte that begins no valid encoding
\* (overlong forms, surrogates and values above U+10FFFF are not valid)
RuneWidth(s) ==
    LET IsCont(b) == b >= 128 /\ b <= 191
        b1 == s[1]
        b2 == IF Len(s) >= 2 THEN s[2] ELSE 0
        b3 == IF Len(s) >= 3 THEN s[3] ELSE 0
        b4 == IF Len(s) >= 4 THEN s[4] ELSE 0
    IN  IF b1 < 128 THEN 1
        ELSE IF b1 >= 194 /\ b1 <= 223
            THEN IF IsCont(b2) THEN 2 ELSE 0
        ELSE IF b1 >= 224 /\ b1 <= 239
            THEN IF /\ IsCont(b2) /\ IsCont(b3)
                    /\ (b1 = 224) => (b2 >= 160)
                    /\ (b1 = 237) => (b2 <= 159)
                     THEN 3 ELSE 0
        ELSE IF b1 >= 240 /\ b1 <= 244
            THEN IF /\ IsCont(b2) /\ IsCont(b3) /\ IsCont(b4)
                    /\ (b1 = 240) => (b2 >= 144)
                    /\ (b1 = 244) => (b2 <= 143)
                     THEN 4 ELSE 0
        ELSE 0

\* json.Marshal followed by json.Unmarshal of a Go string value: ASCII and
\* valid sequences are kept, every byte that is not valid UTF-8 becomes U+FFFD
RECURSIVE jsonString(_)
jsonString(s) ==
    IF s = <<>> THEN <<>>
    ELSE IF RuneWidth(s) = 0
        THEN ReplacementChar \o jsonString(Tail(s))
    ELSE SubSeq(s, 1, RuneWidth(s))
             \o jsonString(SubSeq(s, RuneWidth(s) + 1, Len(s)))

\* a string is valid UTF-8 when encoding leaves it alone
ValidUTF8(s) == jsonString(s) = s

\* the arguments of the issuing calls: "u" and the one-byte string "\xff",
\* which is not UTF-8; "e"; "" and "R"
UserIDs == { <<117>>, <<255>> }
Emails  == { <<101>> }
Roles   == { <<>>, <<82>> }

----------------------------------------------------------------------------
(* Errors *)

ErrInvalidToken == "invalid token"
ErrTokenExpired == "token expired"
NoError == "nil"

\* the sentinel errors of golang-jwt that ParseWithClaims wraps
JwtErrTokenMalformed        == "token is malformed"
JwtErrTokenUnverifiable     == "token is unverifiable"
JwtErrTokenSignatureInvalid == "token signature is invalid"
JwtErrTokenInvalidClaims    == "token has invalid claims"
JwtErrTokenExpired          == "token is expired"
JwtErrTokenNotValidYet      == "token is not valid yet"

----------------------------------------------------------------------------
(* Claims *)

\* a nil *NumericDate
Nil == -1

\* a json field left out of the payload (role has omitempty)
Omitted == <<-1>>

\* mutant: the time is kept to the tick
NewNumericDate_Untruncated(t) == t

\* jwt.NewNumericDate: the time truncated to jwt.TimePrecision, one second
NewNumericDate(t) == (t \div TicksPerSecond) * TicksPerSecond

\* the Claims struct
Claims(userID, email, role, expiresAt, issuedAt, notBefore) ==
    [UserID |-> userID, Email |-> email, Role |-> role,
     ExpiresAt |-> expiresAt, IssuedAt |-> issuedAt, NotBefore |-> notBefore]

\* the nil *Claims returned with an error
NilClaims == Claims(<<>>, <<>>, <<>>, Nil, Nil, Nil)

----------------------------------------------------------------------------
(* The token string: its segments between the dots *)

\* the signing methods golang-jwt registers
Algs ==
    {"HS256", "HS384", "HS512", "RS256", "RS384", "RS512",
     "PS256", "PS384", "PS512", "ES256", "ES384", "ES512", "EdDSA", "none"}

\* token.Method.(*jwt.SigningMethodHMAC) succeeds for the HS family
IsSigningMethodHMAC(alg) == alg \in {"HS256", "HS384", "HS512"}

\* base64url of the JSON header {"alg": alg, "typ": "JWT"}
HeaderSeg(alg) == [seg |-> "header", alg |-> alg]

\* base64url of the JSON of a Claims value: strings are JSON-encoded, an empty
\* role is left out (omitempty), nil dates are left out
PayloadSeg(c) ==
    [seg |-> "payload",
     user_id |-> jsonString(c.UserID),
     email   |-> jsonString(c.Email),
     role    |-> IF c.Role = <<>> THEN Omitted ELSE jsonString(c.Role),
     exp     |-> c.ExpiresAt,
     iat     |-> c.IssuedAt,
     nbf     |-> c.NotBefore]

\* json.Unmarshal of a payload into &Claims{}
UnmarshalClaims(p) ==
    Claims(p.user_id, p.email,
           IF p.role = Omitted THEN <<>> ELSE p.role,
           p.exp, p.iat, p.nbf)

\* base64url of the signature: the MAC of the first two segments under a key
SignatureSeg(alg, key, h, p) ==
    [seg |-> "signature", alg |-> alg, key |-> key, signed |-> <<h, p>>]

\* the empty third segment of an unsigned token
EmptySeg == [seg |-> "empty"]

\* a segment that is not base64url of JSON
JunkSeg == [seg |-> "junk"]

\* a segment that is no base64url at all
BadBase64Seg == [seg |-> "badbase64"]

\* token.SignedString(key) for jwt.NewWithClaims(method, claims)
SignedString(alg, key, c) ==
    LET h == HeaderSeg(alg)
        p == PayloadSeg(c)
    IN  <<h, p, SignatureSeg(alg, key, h, p)>>

----------------------------------------------------------------------------
(* golang-jwt: parsing and verification *)

\* the result of a parse: the joined errors, the algorithm and the claims
ParseResult(errs, alg, c) == [errs |-> errs, alg |-> alg, claims |-> c]

\* Parser.ParseUnverified: split on the dots, decode header and claims, look
\* the signing method up
ParseUnverified(tok) ==
    IF Len(tok) # 3
        THEN ParseResult({JwtErrTokenMalformed}, "", NilClaims)
    ELSE IF tok[1].seg # "header"
        THEN ParseResult({JwtErrTokenMalformed}, "", NilClaims)
    ELSE IF tok[2].seg # "payload"
        THEN ParseResult({JwtErrTokenMalformed}, "", NilClaims)
    ELSE IF tok[1].alg \notin Algs
        THEN ParseResult({JwtErrTokenUnverifiable}, "", UnmarshalClaims(tok[2]))
    ELSE ParseResult({}, tok[1].alg, UnmarshalClaims(tok[2]))

\* mutant: the MAC is compared without the key entering it
MethodVerify_AnyKey(alg, tok, key) ==
    /\ IsSigningMethodHMAC(alg)
    /\ tok[3].seg = "signature"
    /\ tok[3].alg = alg
    /\ tok[3].signed = <<tok[1], tok[2]>>

\* mutant: the MAC covers the header alone, not the payload
MethodVerify_HeaderOnly(alg, tok, key) ==
    /\ IsSigningMethodHMAC(alg)
    /\ tok[3].seg = "signature"
    /\ tok[3].alg = alg
    /\ tok[3].key = key
    /\ tok[3].signed[1] = tok[1]

\* SigningMethod.Verify(signingString, sig, key) with a []byte key: the HMAC
\* methods recompute the MAC; "none" accepts only the magic constant as key
\* and RS256 only an *rsa.PublicKey, so both fail on a []byte
MethodVerify(alg, tok, key) ==
    IF IsSigningMethodHMAC(alg)
        THEN tok[3] = SignatureSeg(alg, key, tok[1], tok[2])
    ELSE FALSE

\* the two Keyfuncs: that of ValidateToken returns an error for a method that
\* is not HMAC, that of GetClaimsFromToken returns the key for every method
KeyfuncOK(checksMethod, alg) == ~checksMethod \/ IsSigningMethodHMAC(alg)

\* mutant: a token is still good at the very instant of its expiry
ValidateClaims_NotAfter(c, now) ==
    (IF c.ExpiresAt # Nil /\ ~(now <= c.ExpiresAt) THEN {JwtErrTokenExpired} ELSE {})
    \cup
    (IF c.NotBefore # Nil /\ now < c.NotBefore THEN {JwtErrTokenNotValidYet} ELSE {})

\* mutant: the comparison with the expiry is the wrong way round
ValidateClaims_Reversed(c, now) ==
    (IF c.ExpiresAt # Nil /\ now < c.ExpiresAt THEN {JwtErrTokenExpired} ELSE {})
    \cup
    (IF c.NotBefore # Nil /\ now < c.NotBefore THEN {JwtErrTokenNotValidYet} ELSE {})

\* Validator.Validate with the default options: exp and nbf are checked when
\* present, iat is not; the errors are joined
ValidateClaims(c, now) ==
    (IF c.ExpiresAt # Nil /\ ~(now < c.ExpiresAt) THEN {JwtErrTokenExpired} ELSE {})
    \cup
    (IF c.NotBefore # Nil /\ now < c.NotBefore THEN {JwtErrTokenNotValidYet} ELSE {})

\* mutant: the claims are validated before the key is asked for and the
\* signature verified
ParseWithClaims_ClaimsFirst(tok, secret, checksMethod, skipClaimsValidation, now) ==
    LET u == ParseUnverified(tok)
    IN  IF u.errs # {} THEN u
        ELSE IF ~skipClaimsValidation /\ ValidateClaims(u.claims, now) # {}
            THEN ParseResult({JwtErrTokenInvalidClaims} \cup ValidateClaims(u.claims, now),
                             u.alg, u.claims)
        ELSE IF tok[3].seg = "badbase64"
            THEN ParseResult({JwtErrTokenMalformed}, u.alg, u.claims)
        ELSE IF ~KeyfuncOK(checksMethod, u.alg)
            THEN ParseResult({JwtErrTokenUnverifiable}, u.alg, u.claims)
        ELSE IF ~MethodVerify(u.alg, tok, secret)
            THEN ParseResult({JwtErrTokenSignatureInvalid}, u.alg, u.claims)
        ELSE u

\* jwt.ParseWithClaims(tokenString, &Claims{}, keyFunc, opts...)
ParseWithClaims(tok, secret, checksMethod, skipClaimsValidation, now) ==
    LET u == ParseUnverified(tok)
    IN  IF u.errs # {} THEN u
        ELSE IF tok[3].seg = "badbase64"
            THEN ParseResult({JwtErrTokenMalformed}, u.alg, u.claims)
        ELSE IF ~KeyfuncOK(checksMethod, u.alg)
            THEN ParseResult({JwtErrTokenUnverifiable}, u.alg, u.claims)
        ELSE IF ~MethodVerify(u.alg, tok, secret)
            THEN ParseResult({JwtErrTokenSignatureInvalid}, u.alg, u.claims)
        ELSE IF ~skipClaimsValidation /\ ValidateClaims(u.claims, now) # {}
            THEN ParseResult({JwtErrTokenInvalidClaims} \cup ValidateClaims(u.claims, now),
                             u.alg, u.claims)
        ELSE u

----------------------------------------------------------------------------
(* TokenService *)

\* NewTokenService
NewTokenService(secret, accessDuration, refreshDuration) ==
    [secret |-> secret,
     accessTokenDuration |-> accessDuration,
     refreshTokenDuration |-> refreshDuration]

\* what a call returns: the claims (or the token) and the error
Result(c, err) == [claims |-> c, err |-> err]

\* mutant: the role is not copied into the claims
GenerateAccessToken_NoRole(ts, userID, email, role, t0, t1) ==
    SignedString("HS256", ts.secret,
        Claims(userID, email, <<>>,
               NewNumericDate(t0 + ts.accessTokenDuration),
               NewNumericDate(t1), Nil))

\* GenerateAccessToken: t0 and t1 are its two readings of time.Now()
GenerateAccessToken(ts, userID, email, role, t0, t1) ==
    SignedString("HS256", ts.secret,
        Claims(userID, email, role,
               NewNumericDate(t0 + ts.accessTokenDuration),
               NewNumericDate(t1), Nil))

\* mutant: the refresh token carries a reduced claim set, without the role
GenerateRefreshToken_NoRole(ts, userID, email, role, t0, t1) ==
    SignedString("HS256", ts.secret,
        Claims(userID, email, <<>>,
               NewNumericDate(t0 + ts.refreshTokenDuration),
               NewNumericDate(t1), Nil))

\* mutant: the refresh token is issued with the access duration
GenerateRefreshToken_AccessDuration(ts, userID, email, role, t0, t1) ==
    SignedString("HS256", ts.secret,
        Claims(userID, email, role,
               NewNumericDate(t0 + ts.accessTokenDuration),
               NewNumericDate(t1), Nil))

\* mutant: the refresh token is issued without the email
GenerateRefreshToken_NoEmail(ts, userID, email, role, t0, t1) ==
    SignedString("HS256", ts.secret,
        Claims(userID, <<>>, role,
               NewNumericDate(t0 + ts.refreshTokenDuration),
               NewNumericDate(t1), Nil))

\* mutant: the expiry is the issuance instant, the duration is not added
GenerateRefreshToken_NoDuration(ts, userID, email, role, t0, t1) ==
    SignedString("HS256", ts.secret,
        Claims(userID, email, role,
               NewNumericDate(t0),
               NewNumericDate(t1), Nil))

\* GenerateRefreshToken: t0 and t1 are its two readings of time.Now()
GenerateRefreshToken(ts, userID, email, role, t0, t1) ==
    SignedString("HS256", ts.secret,
        Claims(userID, email, role,
               NewNumericDate(t0 + ts.refreshTokenDuration),
               NewNumericDate(t1), Nil))

\* the error of token.SignedString, whatever made the method unable to sign
ErrSigning == "signing failed"

\* the string "", as Split leaves it: one empty segment
EmptyString == <<EmptySeg>>

\* what GenerateTokenPair returns: accessToken, refreshToken, err
PairResult(accessToken, refreshToken, err) ==
    [accessToken |-> accessToken, refreshToken |-> refreshToken, err |-> err]

\* mutant: the error of the second issuance is returned with the named
\* results as they stand, the access token among them
GenerateTokenPair_BareReturn(ts, userID, email, role, t, signs) ==
    IF ~signs[1] THEN PairResult(EmptyString, EmptyString, ErrSigning)
    ELSE IF ~signs[2]
        THEN PairResult(GenerateAccessToken(ts, userID, email, role, t[1], t[2]),
                        EmptyString, ErrSigning)
    ELSE PairResult(GenerateAccessToken(ts, userID, email, role, t[1], t[2]),
                    GenerateRefreshToken(ts, userID, email, role, t[3], t[4]),
                    NoError)

\* GenerateTokenPair: t holds the four readings of time.Now(), two by each
\* issuance; signs[i] tells whether SignedString of the i-th issuance returns
\* a token or an error. The refresh token is not issued when the access token
\* was not
GenerateTokenPair(ts, userID, email, role, t, signs) ==
    IF ~signs[1] THEN PairResult(EmptyString, EmptyString, ErrSigning)
    ELSE IF ~signs[2] THEN PairResult(EmptyString, EmptyString, ErrSigning)
    ELSE PairResult(GenerateAccessToken(ts, userID, email, role, t[1], t[2]),
                    GenerateRefreshToken(ts, userID, email, role, t[3], t[4]),
                    NoError)

\* mutant: the two returns of the error branch are exchanged
ValidateTokenError_Swapped(errs) ==
    IF JwtErrTokenExpired \in errs THEN ErrInvalidToken ELSE ErrTokenExpired

\* the error mapping of ValidateToken: errors.Is(err, jwt.ErrTokenExpired)
ValidateTokenError(errs) ==
    IF JwtErrTokenExpired \in errs THEN ErrTokenExpired ELSE ErrInvalidToken

\* mutant: the token is parsed with ParseUnverified, nothing is verified
ValidateToken_Unverified(ts, tok, now) ==
    LET r == ParseUnverified(tok)
    IN  IF r.errs # {} THEN Result(NilClaims, ValidateTokenError(r.errs))
        ELSE Result(r.claims, NoError)

\* ValidateToken at clock reading now
ValidateToken(ts, tok, now) ==
    LET r == ParseWithClaims(tok, ts.secret, TRUE, FALSE, now)
    IN  IF r.errs # {} THEN Result(NilClaims, ValidateTokenError(r.errs))
        ELSE Result(r.claims, NoError)

\* mutant: the option jwt.WithoutClaimsValidation() is missing
GetClaimsFromToken_Validating(ts, tok, now) ==
    LET r == ParseWithClaims(tok, ts.secret, FALSE, FALSE, now)
    IN  IF r.errs # {} THEN Result(NilClaims, ErrInvalidToken)
        ELSE Result(r.claims, NoError)

\* mutant: the expiry is reported as ValidateToken reports it
GetClaimsFromToken_Reporting(ts, tok, now) ==
    LET r == ParseWithClaims(tok, ts.secret, FALSE, FALSE, now)
    IN  IF r.errs # {} THEN Result(NilClaims, ValidateTokenError(r.errs))
        ELSE Result(r.claims, NoError)

\* mutant: the claims are read with ParseUnverified
GetClaimsFromToken_Unverified(ts, tok, now) ==
    LET r == ParseUnverified(tok)
    IN  IF r.errs # {} THEN Result(NilClaims, ErrInvalidToken)
        ELSE Result(r.claims, NoError)

\* GetClaimsFromToken: jwt.WithoutClaimsValidation()
GetClaimsFromToken(ts, tok, now) ==
    LET r == ParseWithClaims(tok, ts.secret, FALSE, TRUE, now)
    IN  IF r.errs # {} THEN Result(NilClaims, ErrInvalidToken)
        ELSE Result(r.claims, NoError)

----------------------------------------------------------------------------
(* State *)

VARIABLES
    services,   \* the TokenService values constructed at startup, by name
    now,        \* the latest reading of the clock, in ticks
    issued,     \* the token a client holds: the last one issued, and how
    last,       \* the last call: operation, service, argument, result
    before,     \* the ValidateToken call right before the last call, when it
                \* was given the same string on the same service
    pair,       \* the last call of GenerateTokenPair: arguments, clock
                \* readings and the three results
    accounts,   \* the rows of the accounts table, by id
    acctNow,    \* the latest reading of the clock by the account service
    held,       \* the tokens the account service returned last, and to whom
    rpc,        \* the last response of the account service, with its request
    pending,    \* per client, the ChangePassword request between its two statements
    lastChange, \* the last ChangePassword that succeeded on a live account
    deleted,    \* the ids DeleteAccount succeeded on
    products,   \* the rows of the products table, by id
    inflight,   \* the catalog request each client has between the two
                \* statements its handler sends to the database
    catRpc,     \* the last response of the catalog service, with its request
    history     \* for every product ever created: the SKU it was created
                \* with and the request of the last update that succeeded

\* the variables of the token service and those of everything else
tokenVars == <<services, now, issued, last, before, pair>>
accountVars == <<accounts, acctNow, held, rpc, pending, lastChange, deleted>>
catalogVars == <<products, inflight, catRpc, history>>
restVars == <<accountVars, catalogVars>>
nonAccountVars == <<tokenVars, catalogVars>>
nonCatalogVars == <<tokenVars, accountVars>>
vars == <<tokenVars, restVars>>

ServiceIDs == {"ts1", "ts2"}

\* the service that issues the tokens; the other one is only shown them, as
\* ts2 in TestTokenService_ValidateToken_WrongSecret
Issuer == "ts1"
Secrets    == {"secret1", "secret2"}

\* the two services are constructed with different secrets
SecretOf == [id \in ServiceIDs |-> IF id = "ts1" THEN "secret1" ELSE "secret2"]
Durations  == 1..MaxDuration

\* a key no service was constructed with
RSAPrivateKey == "rsa-private-key"

NoToken ==
    [tok |-> <<>>, by |-> "", kind |-> "", userID |-> <<>>, email |-> <<>>,
     role |-> <<>>]

Issued(tok, id, kind, userID, email, role) ==
    [tok |-> tok, by |-> id, kind |-> kind, userID |-> userID, email |-> email,
     role |-> role]

NoCall ==
    [op |-> "", by |-> "", tok |-> <<>>, at |-> Nil,
     claims |-> NilClaims, err |-> NoError]

Call(op, id, tok, at, r) ==
    [op |-> op, by |-> id, tok |-> tok, at |-> at,
     claims |-> r.claims, err |-> r.err]

NoBefore == [err |-> "", at |-> Nil]

NoPair ==
    [by |-> "", userID |-> <<>>, email |-> <<>>, role |-> <<>>, t |-> <<>>,
     signs |-> <<>>,
     accessToken |-> <<>>, refreshToken |-> <<>>, err |-> NoError]

\* a call of GenerateTokenPair: its arguments, its readings of the clock,
\* whether each SignedString signed, and the three results
Pair(id, userID, email, role, t, signs, r) ==
    [by |-> id, userID |-> userID, email |-> email, role |-> role, t |-> t,
     signs |-> signs,
     accessToken |-> r.accessToken, refreshToken |-> r.refreshToken,
     err |-> r.err]

\* what the call that is about to be made on (id, tok) leaves in before
Before(id, tok) ==
    IF last.op = "ValidateToken" /\ last.by = id /\ last.tok = tok
        THEN [err |-> last.err, at |-> last.at]
        ELSE NoBefore

\* the accounts table is empty
NoAccounts == <<>>

\* no tokens were returned yet
NoHeld ==
    [accessToken |-> <<>>, refreshToken |-> <<>>, userID |-> <<>>,
     email |-> <<>>]

\* a request of the account service and its response; the fields a request
\* or a response does not have stay empty; at is the clock reading at which
\* a presented token was validated
NoRpc ==
    [op |-> "", userId |-> <<>>, email |-> <<>>, password |-> <<>>,
     newPassword |-> <<>>, token |-> <<>>, at |-> Nil, code |-> "",
     message |-> "", valid |-> FALSE, respUserId |-> <<>>]

\* no ChangePassword request: none is between its two statements, none has
\* succeeded
NoPending == [userId |-> <<>>, password |-> <<>>, newPassword |-> <<>>]

\* the clients whose requests the gRPC server serves at the same time
Clients == {"c1", "c2"}

\* the account service after NewService, on an empty database
AccountInit ==
    /\ accounts = NoAccounts
    /\ acctNow = 0
    /\ held = NoHeld
    /\ rpc = NoRpc
    /\ pending = [c \in Clients |-> NoPending]
    /\ lastChange = NoPending
    /\ deleted = {}

\* a request of the catalog service in flight has passed the checks of its
\* handler and holds the Product built for the repository
NoRequest ==
    [op |-> "", id |-> <<>>, name |-> <<>>, sku |-> <<>>, price |-> 0,
     stock |-> 0]

\* a response of the catalog service to a request: its code
NoCatRpc == [req |-> NoRequest, code |-> ""]

\* the catalog service after NewService, on an empty products table
CatalogInit ==
    /\ products = <<>>
    /\ inflight = [c \in Clients |-> NoRequest]
    /\ catRpc = NoCatRpc
    /\ history = <<>>

\* the clock never runs backwards: a reading is the latest one or a later one
ClockReadings == {t \in {now, now + 1} : t <= MaxNow}

----------------------------------------------------------------------------
(* The token strings a caller may present *)

\* the payload the presented strings are built around: that of the issued
\* token, or one written by hand when none was issued
BasePayload ==
    IF issued # NoToken THEN issued.tok[2]
    ELSE PayloadSeg(Claims(<<117>>, <<101>>, <<>>,
                           NewNumericDate(MaxNow) + TicksPerSecond,
                           NewNumericDate(0), Nil))

\* the payload with one claim changed
TamperedPayloads(p) ==
    { [p EXCEPT !.user_id = <<120>>],
      [p EXCEPT !.email = <<120>>],
      [p EXCEPT !.role = IF p.role = Omitted THEN <<82>> ELSE Omitted],
      [p EXCEPT !.iat = p.iat + TicksPerSecond],
      [p EXCEPT !.exp = p.exp + TicksPerSecond] }

\* payloads a holder of a secret may sign: a not-before claim, no expiry,
\* an expiry that comes before the not-before claim
CraftedPayloads(p) ==
    { [p EXCEPT !.nbf = TicksPerSecond],
      [p EXCEPT !.nbf = TicksPerSecond, !.exp = Nil],
      [p EXCEPT !.nbf = 2 * TicksPerSecond, !.exp = TicksPerSecond] }

\* "", "invalid.token.string", "<header>.invalid", "<header>.invalid.invalid"
MalformedTokens ==
    { <<EmptySeg>>,
      <<JunkSeg, JunkSeg, JunkSeg>>,
      <<HeaderSeg("HS256"), JunkSeg>>,
      <<HeaderSeg("HS256"), JunkSeg, JunkSeg>> }

\* tokens whose header names a method outside the HMAC family
NonHMACTokens(p) ==
    { <<HeaderSeg("none"), p, EmptySeg>>,
      <<HeaderSeg("RS256"), p,
        SignatureSeg("RS256", RSAPrivateKey, HeaderSeg("RS256"), p)>>,
      <<HeaderSeg("HS999"), p, EmptySeg>> }

\* a payload signed under a key, as SignedString does
SignedTokenOf(alg, key, p) ==
    <<HeaderSeg(alg), p, SignatureSeg(alg, key, HeaderSeg(alg), p)>>

\* tokens signed by whoever holds one of the secrets
SignedTokens(p) ==
    { SignedTokenOf("HS256", k, p) : k \in Secrets }
    \cup { SignedTokenOf("HS384", services[Issuer].secret, p) }
    \cup { SignedTokenOf("HS256", services[Issuer].secret, q) : q \in CraftedPayloads(p) }

\* the issued token with its payload or header changed, the signature kept
TamperedTokens ==
    IF issued = NoToken THEN {}
    ELSE { <<issued.tok[1], q, issued.tok[3]>> : q \in TamperedPayloads(issued.tok[2]) }
         \cup { <<HeaderSeg("HS384"), issued.tok[2], issued.tok[3]>>,
                <<issued.tok[1], issued.tok[2], BadBase64Seg>> }

PresentedTokens ==
    (IF issued # NoToken THEN {issued.tok} ELSE {})
    \cup TamperedTokens
    \cup MalformedTokens
    \cup NonHMACTokens(BasePayload)
    \cup SignedTokens(BasePayload)

----------------------------------------------------------------------------
(* Actions *)

Init ==
    /\ \E a \in Durations, r \in Durations :
          services = [id \in ServiceIDs |-> NewTokenService(SecretOf[id], a, r)]
    /\ now = 0
    /\ issued = NoToken
    /\ last = NoCall
    /\ before = NoBefore
    /\ pair = NoPair
    /\ AccountInit
    /\ CatalogInit

\* a call of GenerateAccessToken; the clock may tick between its two readings
DoGenerateAccessToken(id, userID, email, role) ==
    \E t0 \in ClockReadings : \E t1 \in {t0, t0 + 1} :
        /\ t1 <= MaxNow
        /\ LET tok == GenerateAccessToken(services[id], userID, email, role, t0, t1)
           IN  /\ issued' = Issued(tok, id, "access", userID, email, role)
               /\ last' = Call("GenerateAccessToken", id, tok, t1, Result(NilClaims, NoError))
        /\ now' = t1
        /\ before' = NoBefore
        /\ UNCHANGED <<services, pair, restVars>>

\* a call of GenerateRefreshToken
DoGenerateRefreshToken(id, userID, email, role) ==
    \E t0 \in ClockReadings : \E t1 \in {t0, t0 + 1} :
        /\ t1 <= MaxNow
        /\ LET tok == GenerateRefreshToken(services[id], userID, email, role, t0, t1)
           IN  /\ issued' = Issued(tok, id, "refresh", userID, email, role)
               /\ last' = Call("GenerateRefreshToken", id, tok, t1, Result(NilClaims, NoError))
        /\ now' = t1
        /\ before' = NoBefore
        /\ UNCHANGED <<services, pair, restVars>>

\* a call of ValidateToken
DoValidateToken(id, tok) ==
    \E t \in ClockReadings :
        /\ last' = Call("ValidateToken", id, tok, t, ValidateToken(services[id], tok, t))
        /\ now' = t
        /\ before' = Before(id, tok)
        /\ UNCHANGED <<services, issued, pair, restVars>>

\* a call of GetClaimsFromToken
DoGetClaimsFromToken(id, tok) ==
    \E t \in ClockReadings :
        /\ last' = Call("GetClaimsFromToken", id, tok, t, GetClaimsFromToken(services[id], tok, t))
        /\ now' = t
        /\ before' = Before(id, tok)
        /\ UNCHANGED <<services, issued, pair, restVars>>

\* the issuing calls are made with every user id and every role; the two
\* non-default choices (a user id that is not UTF-8, a role) are not combined
Next ==
    \/ \E u \in UserIDs, e \in Emails, r \in Roles :
          /\ ValidUTF8(u) \/ r = <<>>
          /\ DoGenerateAccessToken(Issuer, u, e, r)
    \/ \E u \in UserIDs, e \in Emails, r \in Roles :
          /\ ValidUTF8(u) \/ r = <<>>
          /\ DoGenerateRefreshToken(Issuer, u, e, r)
    \/ \E id \in ServiceIDs, tok \in PresentedTokens : DoValidateToken(id, tok)
    \/ \E id \in ServiceIDs, tok \in PresentedTokens : DoGetClaimsFromToken(id, tok)

Spec == Init /\ [][Next]_vars

----------------------------------------------------------------------------
(* Token pairs *)

\* the durations of TestTokenService_DifferentDurations and of the other
\* tests, in ticks
ThirtyMinutes == 30 * 60 * TicksPerSecond
FourteenDays == 14 * 24 * 60 * 60 * TicksPerSecond
FifteenMinutes == 15 * 60 * TicksPerSecond
SevenDays == 7 * 24 * 60 * 60 * TicksPerSecond

\* the access and refresh durations a service is constructed with: those of
\* the tests and short ones, down to the fraction of a second of
\* TestTokenService_ValidateToken_Expired
AccessDurations == Durations \cup {FifteenMinutes, ThirtyMinutes}
RefreshDurations == Durations \cup {SevenDays, FourteenDays}

InitPair ==
    /\ \E a \in AccessDurations, r \in RefreshDurations :
          services = [id \in ServiceIDs |-> NewTokenService(SecretOf[id], a, r)]
    /\ now = 0
    /\ issued = NoToken
    /\ last = NoCall
    /\ before = NoBefore
    /\ pair = NoPair
    /\ AccountInit
    /\ CatalogInit

\* a call of GenerateTokenPair: four readings of the clock when the access
\* token is signed, two when it is not (the refresh token is then not issued,
\* so that nothing is said of its signing)
DoGenerateTokenPair(id, userID, email, role) ==
    \E t1 \in ClockReadings, signs \in BOOLEAN \X BOOLEAN :
    \E t2 \in {t1, t1 + 1} : \E t3 \in {t2, t2 + 1} : \E t4 \in {t3, t3 + 1} :
        LET t == IF signs[1] THEN <<t1, t2, t3, t4>> ELSE <<t1, t2, t2, t2>>
            r == GenerateTokenPair(services[id], userID, email, role, t, signs)
        IN  /\ t[4] <= MaxNow
            /\ (~signs[1]) => (t3 = t2 /\ t4 = t2 /\ signs[2])
            /\ pair' = Pair(id, userID, email, role, t, signs, r)
            /\ last' = Call("GenerateTokenPair", id, r.accessToken, t[4],
                            Result(NilClaims, r.err))
            /\ now' = t[4]
            /\ before' = NoBefore
            /\ UNCHANGED <<services, issued, restVars>>

\* the two strings the last GenerateTokenPair returned
PairTokens ==
    IF pair = NoPair THEN {} ELSE {pair.accessToken, pair.refreshToken}

\* pairs are generated for the user ids above and for "\u00e9", two bytes of
\* valid UTF-8
NextPair ==
    \/ \E u \in UserIDs \cup { <<195, 169>> }, e \in Emails, r \in Roles :
          DoGenerateTokenPair(Issuer, u, e, r)
    \/ \E tok \in PairTokens : DoValidateToken(Issuer, tok)

SpecPair == InitPair /\ [][NextPair]_vars

TypeOK ==
    /\ now \in 0..MaxNow
    /\ last.err \in {NoError, ErrInvalidToken, ErrTokenExpired, ErrSigning}

----------------------------------------------------------------------------
(* Vocabulary of the properties *)

\* the last call was ValidateToken on the token the client was issued
ValidatedIssued ==
    /\ last.op = "ValidateToken"
    /\ issued # NoToken
    /\ last.tok = issued.tok

\* the duration the issuing service was configured with for the token's kind
IssuedDuration ==
    IF issued.kind = "access" THEN services[issued.by].accessTokenDuration
    ELSE services[issued.by].refreshTokenDuration

\* the returned claims carry the arguments of the issuing call
ClaimsMatchArguments ==
    /\ last.claims.UserID = issued.userID
    /\ last.claims.Email = issued.email
    /\ last.claims.Role = issued.role

\* the presented string has three segments, a header and a payload
WellFormed(tok) ==
    /\ Len(tok) = 3
    /\ tok[1].seg = "header"
    /\ tok[2].seg = "payload"
    /\ tok[3].seg # "badbase64"

\* the presented string carries the HMAC of its first two segments under key
AuthenticUnder(tok, key) ==
    /\ WellFormed(tok)
    /\ tok[1].alg \in {"HS256", "HS384", "HS512"}
    /\ tok[3] = [seg |-> "signature", alg |-> tok[1].alg, key |-> key,
                 signed |-> <<tok[1], tok[2]>>]

----------------------------------------------------------------------------
(* C1: round trip of an access token *)

\* C1 as stated: ValidateToken on the token returned by GenerateAccessToken,
\* on the same service, succeeds and returns the user id, email and role that
\* were passed in, whatever they are (read for a token that has not reached
\* its expiry, which is the subject of C2)
C1_RoundTripAnyArguments ==
    (/\ ValidatedIssued /\ issued.kind = "access" /\ last.by = issued.by
     /\ last.at < issued.tok[2].exp)
        => (last.err = NoError /\ ClaimsMatchArguments)

\* C1 amended: for arguments that are valid UTF-8 (the role possibly empty),
\* ValidateToken on the token returned by GenerateAccessToken, on the same
\* service, succeeds and returns the user id, email and role that were passed
\* in (read, as above, for a token that has not reached its expiry)
C1_RoundTrip ==
    (/\ ValidatedIssued /\ issued.kind = "access" /\ last.by = issued.by
     /\ ValidUTF8(issued.userID) /\ ValidUTF8(issued.email) /\ ValidUTF8(issued.role)
     /\ last.at < issued.tok[2].exp)
        => (last.err = NoError /\ ClaimsMatchArguments)

C1_Witness ==
    /\ ValidatedIssued /\ issued.kind = "access" /\ last.by = issued.by
    /\ issued.role = <<>>
    /\ ValidUTF8(issued.userID)
    /\ last.err = NoError
    /\ last.claims.UserID = issued.userID
    /\ last.claims.Role = <<>>

----------------------------------------------------------------------------
(* C2: the expiry boundary *)

\* C2 as stated: a token issued with duration d validates at every time
\* before issued_at + d and fails with TokenExpired from issued_at + d on
C2_BoundaryAtIssuedPlusDuration ==
    (ValidatedIssued /\ last.by = issued.by)
        => IF last.at < issued.tok[2].iat + IssuedDuration
               THEN last.err = NoError
               ELSE last.err = ErrTokenExpired

\* C2 amended: a token issued with duration d validates at every time before
\* the expires_at it carries and fails with TokenExpired from expires_at on;
\* expires_at is the clock reading at issuance plus d cut down to the whole
\* second, which is less than a second after issued_at + d and may be before it
C2_BoundaryAtExpiresAt ==
    (ValidatedIssued /\ last.by = issued.by)
        => /\ IF last.at < issued.tok[2].exp
                  THEN last.err = NoError
                  ELSE last.err = ErrTokenExpired /\ last.claims = NilClaims
           /\ issued.tok[2].exp % TicksPerSecond = 0
           /\ issued.tok[2].exp < issued.tok[2].iat + IssuedDuration + TicksPerSecond

\* an issued token was refused at the very instant of its expiry
C2_Witness ==
    /\ ValidatedIssued /\ last.by = issued.by
    /\ last.at = issued.tok[2].exp
    /\ last.err = ErrTokenExpired
    /\ issued.tok[2].exp > issued.tok[2].iat

----------------------------------------------------------------------------
(* C3: secret isolation *)

\* C3: a token issued by a service fails with InvalidToken when validated by
\* a service constructed with another secret, expired or not
C3_SecretIsolation ==
    (ValidatedIssued /\ services[last.by].secret # services[issued.by].secret)
        => (last.err = ErrInvalidToken /\ last.claims = NilClaims)

\* an unexpired token of ts1 was refused by ts2
C3_Witness ==
    /\ ValidatedIssued
    /\ issued.by = "ts1" /\ last.by = "ts2"
    /\ last.at < issued.tok[2].exp
    /\ last.err = ErrInvalidToken

----------------------------------------------------------------------------
(* C4: algorithm pinning *)

\* C4: ValidateToken refuses with InvalidToken every token whose header names
\* a method outside the HMAC family, whatever its claims and signature
C4_AlgorithmPinning ==
    (/\ last.op = "ValidateToken"
     /\ Len(last.tok) = 3 /\ last.tok[1].seg = "header"
     /\ last.tok[1].alg \notin {"HS256", "HS384", "HS512"})
        => (last.err = ErrInvalidToken /\ last.claims = NilClaims)

\* an unsigned token with well-formed, unexpired claims was refused
C4_Witness ==
    /\ last.op = "ValidateToken"
    /\ Len(last.tok) = 3 /\ last.tok[1] = [seg |-> "header", alg |-> "none"]
    /\ last.tok[2].seg = "payload"
    /\ last.at < last.tok[2].exp
    /\ last.err = ErrInvalidToken

----------------------------------------------------------------------------
(* C5: tamper detection *)

\* C5: an issued token whose payload was changed and whose header and
\* signature were kept fails with InvalidToken on every service
C5_TamperDetection ==
    (/\ last.op = "ValidateToken" /\ issued # NoToken
     /\ Len(last.tok) = 3
     /\ last.tok[1] = issued.tok[1]
     /\ last.tok[3] = issued.tok[3]
     /\ last.tok[2] # issued.tok[2])
        => (last.err = ErrInvalidToken /\ last.claims = NilClaims)

\* the issuer refused its own token with the expiry moved forward, at a time
\* the forged expiry would still cover
C5_Witness ==
    /\ last.op = "ValidateToken" /\ issued # NoToken
    /\ last.by = issued.by
    /\ Len(last.tok) = 3
    /\ last.tok[1] = issued.tok[1]
    /\ last.tok[3] = issued.tok[3]
    /\ last.tok[2] = [issued.tok[2] EXCEPT !.exp = @ + TicksPerSecond]
    /\ last.at < last.tok[2].exp
    /\ last.err = ErrInvalidToken

----------------------------------------------------------------------------
(* C6: malformed input *)

\* C6: ValidateToken fails with InvalidToken on the empty string, on a string
\* that is not three valid segments and on a valid header followed by a
\* corrupted payload
C6_MalformedInput ==
    (last.op = "ValidateToken" /\ ~WellFormed(last.tok))
        => (last.err = ErrInvalidToken /\ last.claims = NilClaims)

\* "<validheader>.<corruptedpayload>" was refused
C6_Witness ==
    /\ last.op = "ValidateToken"
    /\ last.tok = <<[seg |-> "header", alg |-> "HS256"], [seg |-> "junk"]>>
    /\ last.err = ErrInvalidToken

----------------------------------------------------------------------------
(* C7: determinism of ValidateToken *)

\* two ValidateToken calls in a row on the same string and service
ValidatedTwice == last.op = "ValidateToken" /\ before # NoBefore

----------------------------------------------------------------------------
(* C8: lenient read of an expired token *)

\* GetClaimsFromToken right after ValidateToken returned TokenExpired for the
\* same string on the same service
ReadAfterExpired ==
    /\ last.op = "GetClaimsFromToken"
    /\ before.err = ErrTokenExpired

\* C8 as stated: GetClaimsFromToken then succeeds and returns the UserID the
\* token was issued for
C8_ReturnsIssuedUserID ==
    ReadAfterExpired =>
        /\ last.err = NoError
        /\ (last.tok = issued.tok => last.claims.UserID = issued.userID)

\* C8 amended: GetClaimsFromToken then succeeds and returns the UserID the
\* token carries, which is the one it was issued for whenever that one is
\* valid UTF-8
C8_LenientExpiredRead ==
    ReadAfterExpired =>
        /\ last.err = NoError
        /\ last.claims.UserID = last.tok[2].user_id
        /\ (last.tok = issued.tok /\ ValidUTF8(issued.userID)
               => last.claims.UserID = issued.userID)

\* the claims of an expired issued token were read
C8_Witness ==
    /\ ReadAfterExpired
    /\ issued # NoToken /\ last.tok = issued.tok
    /\ last.err = NoError
    /\ last.claims.UserID = issued.userID

----------------------------------------------------------------------------
(* C9: GetClaimsFromToken never reports expiry *)

\* C9: GetClaimsFromToken never returns TokenExpired, its only error is
\* InvalidToken; for an authentic token past its expiry it returns the claims
C9_NeverTokenExpired ==
    last.op = "GetClaimsFromToken" =>
        /\ last.err \in {NoError, ErrInvalidToken}
        /\ (/\ AuthenticUnder(last.tok, services[last.by].secret)
            /\ last.tok[2].exp # Nil
            /\ last.tok[2].exp <= last.at)
               => (last.err = NoError /\ last.claims.ExpiresAt = last.tok[2].exp)

\* the claims of a token past its expiry were returned without an error
C9_Witness ==
    /\ last.op = "GetClaimsFromToken"
    /\ AuthenticUnder(last.tok, services[last.by].secret)
    /\ last.tok[2].exp # Nil
    /\ last.tok[2].exp < last.at
    /\ last.err = NoError

----------------------------------------------------------------------------
(* C10: GetClaimsFromToken checks structure and signature as ValidateToken *)

\* C10: GetClaimsFromToken fails with InvalidToken exactly on the strings that
\* are malformed, name a method outside the HMAC family or are not signed
\* with the configured secret; ValidateToken fails with InvalidToken on each
\* of them too, and on nothing else that GetClaimsFromToken accepts except a
\* token that is not valid yet; claims are returned only from a token signed
\* with the configured secret
C10_SameChecks ==
    last.op = "GetClaimsFromToken" =>
        LET authentic == AuthenticUnder(last.tok, services[last.by].secret)
            v == ValidateToken(services[last.by], last.tok, last.at)
        IN  /\ (last.err = ErrInvalidToken) <=> ~authentic
            /\ ~authentic => v.err = ErrInvalidToken
            /\ (v.err = ErrInvalidToken /\ authentic)
                   => (last.tok[2].nbf # Nil /\ last.at < last.tok[2].nbf)
            /\ (last.err = NoError)
                   => (authentic /\ last.claims.UserID = last.tok[2].user_id)

\* an unsigned token was refused by GetClaimsFromToken, whose Keyfunc does
\* not look at the method
C10_Witness ==
    /\ last.op = "GetClaimsFromToken"
    /\ Len(last.tok) = 3
    /\ last.tok[1] = [seg |-> "header", alg |-> "none"]
    /\ last.tok[2].seg = "payload"
    /\ last.err = ErrInvalidToken

----------------------------------------------------------------------------
(* Account service: the repository *)

\* gRPC status codes of the handlers
OK == "OK"
InvalidArgument == "InvalidArgument"
AlreadyExists == "AlreadyExists"
NotFound == "NotFound"
Unauthenticated == "Unauthenticated"
Internal == "Internal"

\* errors of the repository
ErrAccountNotFound == "account not found"
ErrEmailAlreadyExists == "email already exists"
ErrInvalidCredentials == "invalid credentials"

\* the ids uuid.New() hands out, and the strings the requests carry
AccountIDs == { <<49>>, <<50>> }
AccountEmails == { <<97>>, <<98>> }
Passwords == { <<112>>, <<113>> }

\* bcrypt: the hash is kept as the password it was made from; the comparison
\* succeeds for that password and no other
GenerateFromPassword(password) == [bcrypt |-> password]

\* mutant: the comparison succeeds for every password
CompareHashAndPassword_Always(hash, password) == TRUE

CompareHashAndPassword(hash, password) == hash = GenerateFromPassword(password)

\* what a lookup returns: the row's id and the error
Found(id) == [id |-> id, err |-> NoError]
NotFoundAccount == [id |-> <<>>, err |-> ErrAccountNotFound]

\* repository.Create: INSERT, refused by the UNIQUE constraint on email,
\* which counts the rows of deleted accounts too
\* mutant: the e-mail is unique among the active rows only
RepoCreate_ActiveOnly(accts, id, email, password, name, phone) ==
    IF \E i \in DOMAIN accts : accts[i].email = email /\ accts[i].is_active
        THEN [accts |-> accts, id |-> <<>>, err |-> ErrEmailAlreadyExists]
    ELSE [accts |-> [i \in DOMAIN accts \cup {id} |->
                        IF i = id
                            THEN [email |-> email,
                                  password_hash |-> GenerateFromPassword(password),
                                  name |-> name, phone |-> phone,
                                  is_active |-> TRUE]
                        ELSE accts[i]],
          id |-> id, err |-> NoError]

RepoCreate(accts, id, email, password, name, phone) ==
    IF \E i \in DOMAIN accts : accts[i].email = email
        THEN [accts |-> accts, id |-> <<>>, err |-> ErrEmailAlreadyExists]
    ELSE [accts |-> [i \in DOMAIN accts \cup {id} |->
                        IF i = id
                            THEN [email |-> email,
                                  password_hash |-> GenerateFromPassword(password),
                                  name |-> name, phone |-> phone,
                                  is_active |-> TRUE]
                        ELSE accts[i]],
          id |-> id, err |-> NoError]

\* mutant: the lookup by id returns deleted accounts too
RepoGetByID_AnyRow(accts, id) ==
    IF id \in DOMAIN accts THEN Found(id) ELSE NotFoundAccount

\* repository.GetByID: WHERE id = $1 AND is_active = TRUE
RepoGetByID(accts, id) ==
    IF id \in DOMAIN accts /\ accts[id].is_active THEN Found(id)
    ELSE NotFoundAccount

\* repository.GetByEmail: WHERE email = $1 AND is_active = TRUE
RepoGetByEmail(accts, email) ==
    LET S == {i \in DOMAIN accts : accts[i].email = email /\ accts[i].is_active}
    IN  IF S = {} THEN NotFoundAccount ELSE Found(CHOOSE i \in S : TRUE)

\* repository.Update: UPDATE ... WHERE id = $1 AND is_active = TRUE
RepoUpdate(accts, id, name, phone) ==
    IF id \in DOMAIN accts /\ accts[id].is_active
        THEN [accts |-> [accts EXCEPT ![id].name = name, ![id].phone = phone],
              id |-> id, err |-> NoError]
    ELSE [accts |-> accts, id |-> <<>>, err |-> ErrAccountNotFound]

\* repository.UpdatePassword: UPDATE ... WHERE id = $1 AND is_active = TRUE
RepoUpdatePassword(accts, id, newPasswordHash) ==
    IF id \in DOMAIN accts /\ accts[id].is_active
        THEN [accts |-> [accts EXCEPT ![id].password_hash = newPasswordHash],
              err |-> NoError]
    ELSE [accts |-> accts, err |-> ErrAccountNotFound]

\* repository.Delete: UPDATE ... SET is_active = FALSE WHERE id = $1
RepoDelete(accts, id) ==
    IF id \in DOMAIN accts
        THEN [accts |-> [accts EXCEPT ![id].is_active = FALSE], err |-> NoError]
    ELSE [accts |-> accts, err |-> ErrAccountNotFound]

\* repository.VerifyPassword: GetByEmail, then the bcrypt comparison
RepoVerifyPassword(accts, email, password) ==
    LET a == RepoGetByEmail(accts, email)
    IN  IF a.err # NoError THEN [id |-> <<>>, err |-> ErrInvalidCredentials]
        ELSE IF ~CompareHashAndPassword(accts[a.id].password_hash, password)
            THEN [id |-> <<>>, err |-> ErrInvalidCredentials]
        ELSE Found(a.id)

----------------------------------------------------------------------------
(* Account service: tokens *)

\* the secret NewService was given
AccountSecret == "test-secret"

\* claims.ExpiresAt.Before(time.Now()) on a token without exp: a nil pointer
\* is dereferenced and the handler panics
Panic == "panic"

\* generateTokens: t holds its four readings of time.Now(); the claims have
\* no role
generateTokens(userID, email, t) ==
    [accessToken |->
        SignedString("HS256", AccountSecret,
            Claims(userID, email, <<>>,
                   NewNumericDate(t[1] + FifteenMinutes), NewNumericDate(t[2]), Nil)),
     refreshToken |->
        SignedString("HS256", AccountSecret,
            Claims(userID, email, <<>>,
                   NewNumericDate(t[3] + SevenDays), NewNumericDate(t[4]), Nil))]

\* mutant: the claims are not validated and the expiry is not looked at
parseToken_NoExpiry(tok, t) ==
    LET r == ParseWithClaims(tok, AccountSecret, FALSE, TRUE, t[1])
    IN  IF r.errs # {} THEN Result(NilClaims, ErrInvalidToken)
        ELSE Result(r.claims, NoError)

\* mutant: only the tokens returned last are accepted
parseToken_SingleUse(tok, t) ==
    LET r == ParseWithClaims(tok, AccountSecret, FALSE, FALSE, t[1])
    IN  IF r.errs # {} THEN Result(NilClaims, ErrInvalidToken)
        ELSE IF r.claims.ExpiresAt = Nil THEN Result(NilClaims, Panic)
        ELSE IF r.claims.ExpiresAt < t[2] THEN Result(NilClaims, ErrTokenExpired)
        ELSE IF held # NoHeld /\ tok \notin {held.accessToken, held.refreshToken}
            THEN Result(NilClaims, ErrInvalidToken)
        ELSE Result(r.claims, NoError)

\* mutant: the token of a user whose account was deleted is refused
parseToken_Revoking(tok, t) ==
    LET r == ParseWithClaims(tok, AccountSecret, FALSE, FALSE, t[1])
    IN  IF r.errs # {} THEN Result(NilClaims, ErrInvalidToken)
        ELSE IF r.claims.ExpiresAt = Nil THEN Result(NilClaims, Panic)
        ELSE IF r.claims.ExpiresAt < t[2] THEN Result(NilClaims, ErrTokenExpired)
        ELSE IF r.claims.UserID \in deleted THEN Result(NilClaims, ErrInvalidToken)
        ELSE Result(r.claims, NoError)

\* mutant: a token that lives shorter than a refresh token is refused
parseToken_RefreshOnly(tok, t) ==
    LET r == ParseWithClaims(tok, AccountSecret, FALSE, FALSE, t[1])
    IN  IF r.errs # {} THEN Result(NilClaims, ErrInvalidToken)
        ELSE IF r.claims.ExpiresAt = Nil THEN Result(NilClaims, Panic)
        ELSE IF r.claims.ExpiresAt < t[2] THEN Result(NilClaims, ErrTokenExpired)
        ELSE IF r.claims.ExpiresAt - r.claims.IssuedAt < SevenDays - TicksPerSecond
            THEN Result(NilClaims, ErrInvalidToken)
        ELSE Result(r.claims, NoError)

\* parseToken: t[1] is the clock reading of the library's validation, t[2]
\* that of the comparison which follows it
parseToken(tok, t) ==
    LET r == ParseWithClaims(tok, AccountSecret, FALSE, FALSE, t[1])
    IN  IF r.errs # {} THEN Result(NilClaims, ErrInvalidToken)
        ELSE IF r.claims.ExpiresAt = Nil THEN Result(NilClaims, Panic)
        ELSE IF r.claims.ExpiresAt < t[2] THEN Result(NilClaims, ErrTokenExpired)
        ELSE Result(r.claims, NoError)

\* the instants the clock of the account service is read at: the start, half
\* a second later, and the instants around the two expiries
AccountInstants ==
    {0, 1, FifteenMinutes - 1, FifteenMinutes, FifteenMinutes + 1, SevenDays}

\* k readings of the clock in a row: the clock moves on, to any later
\* instant, at most once while they are taken
AccountReadings(k) ==
    { [i \in 1..k |-> IF i <= j THEN acctNow ELSE later] :
        j \in 0..k, later \in {u \in AccountInstants : u >= acctNow} }

\* k readings during which the clock stands still
StillReadings(k) == { [i \in 1..k |-> acctNow] }

\* the strings presented as tokens: the two that were returned last; the
\* access token with its payload changed, signed by someone else, and signed
\* by the holder of the secret without an expiry; and three that are no token
AccountTokens ==
    (IF held = NoHeld THEN {}
     ELSE { held.accessToken, held.refreshToken,
            <<held.accessToken[1],
              [held.accessToken[2] EXCEPT !.user_id = <<120>>],
              held.accessToken[3]>>,
            SignedTokenOf("HS256", "secret2", held.accessToken[2]),
            SignedTokenOf("HS256", AccountSecret,
                          [held.accessToken[2] EXCEPT !.exp = Nil]) })
    \cup { <<JunkSeg, JunkSeg, JunkSeg>>, <<JunkSeg>>, EmptyString }

----------------------------------------------------------------------------
(* Account service: the handlers *)

\* the tokens generateTokens returned, and the account they were made for
Held(tokens, userID, email) ==
    [accessToken |-> tokens.accessToken, refreshToken |-> tokens.refreshToken,
     userID |-> userID, email |-> email]

\* the id uuid.New() hands to repository.Create
FreshID ==
    IF AccountIDs \subseteq DOMAIN accounts THEN <<>>
    ELSE CHOOSE i \in AccountIDs : i \notin DOMAIN accounts

\* Register; t holds the four clock readings of generateTokens
DoRegister(email, password, name, t) ==
    LET req == [NoRpc EXCEPT !.op = "Register", !.email = email,
                             !.password = password]
        c == RepoCreate(accounts, FreshID, email, password, name, <<>>)
    IN  /\ IF email = <<>> \/ password = <<>> \/ name = <<>>
               THEN /\ rpc' = [req EXCEPT !.code = InvalidArgument]
                    /\ UNCHANGED <<accounts, acctNow, held>>
           ELSE IF c.err = ErrEmailAlreadyExists
               THEN /\ rpc' = [req EXCEPT !.code = AlreadyExists]
                    /\ UNCHANGED <<accounts, acctNow, held>>
           ELSE /\ accounts' = c.accts
                /\ held' = Held(generateTokens(c.id, email, t), c.id, email)
                /\ rpc' = [req EXCEPT !.code = OK, !.respUserId = c.id]
                /\ acctNow' = t[4]
        /\ UNCHANGED <<pending, lastChange, deleted, nonAccountVars>>

\* Login; t holds the four clock readings of generateTokens
DoLogin(email, password, t) ==
    LET req == [NoRpc EXCEPT !.op = "Login", !.email = email,
                             !.password = password]
        a == RepoVerifyPassword(accounts, email, password)
    IN  /\ IF email = <<>> \/ password = <<>>
               THEN /\ rpc' = [req EXCEPT !.code = InvalidArgument]
                    /\ UNCHANGED <<acctNow, held>>
           ELSE IF a.err = ErrInvalidCredentials
               THEN /\ rpc' = [req EXCEPT !.code = Unauthenticated]
                    /\ UNCHANGED <<acctNow, held>>
           ELSE /\ held' = Held(generateTokens(a.id, accounts[a.id].email, t),
                                a.id, accounts[a.id].email)
                /\ rpc' = [req EXCEPT !.code = OK, !.respUserId = a.id]
                /\ acctNow' = t[4]
        /\ UNCHANGED <<accounts, pending, lastChange, deleted, nonAccountVars>>

\* GetProfile
DoGetProfile(userId) ==
    LET req == [NoRpc EXCEPT !.op = "GetProfile", !.userId = userId]
        a == RepoGetByID(accounts, userId)
    IN  /\ rpc' = IF userId = <<>> THEN [req EXCEPT !.code = InvalidArgument]
                  ELSE IF a.err = ErrAccountNotFound
                      THEN [req EXCEPT !.code = NotFound]
                  ELSE [req EXCEPT !.code = OK, !.respUserId = a.id]
        /\ UNCHANGED <<accounts, acctNow, held, pending, lastChange, deleted,
                       nonAccountVars>>

\* UpdateProfile
DoUpdateProfile(userId, name) ==
    LET req == [NoRpc EXCEPT !.op = "UpdateProfile", !.userId = userId]
        u == RepoUpdate(accounts, userId, name, <<>>)
    IN  /\ IF userId = <<>>
               THEN rpc' = [req EXCEPT !.code = InvalidArgument]
                    /\ UNCHANGED accounts
           ELSE IF u.err = ErrAccountNotFound
               THEN rpc' = [req EXCEPT !.code = NotFound]
                    /\ UNCHANGED accounts
           ELSE rpc' = [req EXCEPT !.code = OK, !.respUserId = u.id]
                /\ accounts' = u.accts
        /\ UNCHANGED <<acctNow, held, pending, lastChange, deleted,
                       nonAccountVars>>

\* ChangePassword up to its bcrypt comparison: the checks of the request,
\* GetByID, CompareHashAndPassword. A request that passes them is left
\* between its two statements
BeginChangePassword(c, userId, oldPassword, newPassword) ==
    LET req == [NoRpc EXCEPT !.op = "ChangePassword", !.userId = userId,
                             !.password = oldPassword,
                             !.newPassword = newPassword]
        a == RepoGetByID(accounts, userId)
    IN  /\ pending[c] = NoPending
        /\ IF userId = <<>> \/ oldPassword = <<>> \/ newPassword = <<>>
               THEN rpc' = [req EXCEPT !.code = InvalidArgument]
                    /\ UNCHANGED pending
           ELSE IF a.err = ErrAccountNotFound
               THEN rpc' = [req EXCEPT !.code = NotFound]
                    /\ UNCHANGED pending
           ELSE IF ~CompareHashAndPassword(accounts[a.id].password_hash, oldPassword)
               THEN rpc' = [req EXCEPT !.code = Unauthenticated]
                    /\ UNCHANGED pending
           ELSE pending' = [pending EXCEPT ![c] =
                               [userId |-> userId, password |-> oldPassword,
                                newPassword |-> newPassword]]
                /\ UNCHANGED rpc
        /\ UNCHANGED <<accounts, acctNow, held, lastChange, deleted,
                       nonAccountVars>>

\* the rest of ChangePassword: GenerateFromPassword, UpdatePassword
EndChangePassword(c) ==
    LET p == pending[c]
        req == [NoRpc EXCEPT !.op = "ChangePassword", !.userId = p.userId,
                             !.password = p.password,
                             !.newPassword = p.newPassword]
        u == RepoUpdatePassword(accounts, p.userId,
                                GenerateFromPassword(p.newPassword))
    IN  /\ p # NoPending
        /\ IF u.err # NoError
               THEN rpc' = [req EXCEPT !.code = Internal]
                    /\ UNCHANGED <<accounts, lastChange>>
           ELSE rpc' = [req EXCEPT !.code = OK]
                /\ accounts' = u.accts
                /\ lastChange' = p
        /\ pending' = [pending EXCEPT ![c] = NoPending]
        /\ UNCHANGED <<acctNow, held, deleted, nonAccountVars>>

\* DeleteAccount
DoDeleteAccount(userId) ==
    LET req == [NoRpc EXCEPT !.op = "DeleteAccount", !.userId = userId]
        d == RepoDelete(accounts, userId)
    IN  /\ IF userId = <<>>
               THEN rpc' = [req EXCEPT !.code = InvalidArgument]
                    /\ UNCHANGED <<accounts, deleted, lastChange>>
           ELSE IF d.err = ErrAccountNotFound
               THEN rpc' = [req EXCEPT !.code = NotFound]
                    /\ UNCHANGED <<accounts, deleted, lastChange>>
           ELSE rpc' = [req EXCEPT !.code = OK]
                /\ accounts' = d.accts
                /\ deleted' = deleted \cup {userId}
                /\ lastChange' = IF lastChange.userId = userId THEN NoPending
                                 ELSE lastChange
        /\ UNCHANGED <<acctNow, held, pending, nonAccountVars>>

\* VerifyToken; t holds the two clock readings of parseToken
DoVerifyToken(tok, t) ==
    LET req == [NoRpc EXCEPT !.op = "VerifyToken", !.token = tok, !.at = t[1]]
        r == parseToken(tok, t)
    IN  /\ IF tok = EmptyString
               THEN rpc' = [req EXCEPT !.code = InvalidArgument, !.at = Nil]
                    /\ UNCHANGED acctNow
           ELSE /\ rpc' = IF r.err = Panic THEN [req EXCEPT !.code = Panic]
                         ELSE IF r.err # NoError THEN [req EXCEPT !.code = OK]
                         ELSE [req EXCEPT !.code = OK, !.valid = TRUE,
                                          !.respUserId = r.claims.UserID]
                /\ acctNow' = t[2]
        /\ UNCHANGED <<accounts, held, pending, lastChange, deleted,
                       nonAccountVars>>

\* RefreshToken; t holds the two clock readings of parseToken and the four
\* of generateTokens
DoRefreshToken(tok, t) ==
    LET req == [NoRpc EXCEPT !.op = "RefreshToken", !.token = tok, !.at = t[1]]
        r == parseToken(tok, t)
    IN  /\ IF tok = EmptyString
               THEN rpc' = [req EXCEPT !.code = InvalidArgument, !.at = Nil]
                    /\ UNCHANGED <<acctNow, held>>
           ELSE IF r.err = Panic
               THEN rpc' = [req EXCEPT !.code = Panic]
                    /\ acctNow' = t[2]
                    /\ UNCHANGED held
           ELSE IF r.err # NoError
               THEN rpc' = [req EXCEPT !.code = Unauthenticated,
                                       !.message = IF r.err = ErrTokenExpired
                                                       THEN "refresh token expired"
                                                   ELSE "invalid refresh token"]
                    /\ acctNow' = t[2]
                    /\ UNCHANGED held
           ELSE rpc' = [req EXCEPT !.code = OK, !.respUserId = r.claims.UserID]
                /\ held' = Held(generateTokens(r.claims.UserID, r.claims.Email,
                                               <<t[3], t[4], t[5], t[6]>>),
                                r.claims.UserID, r.claims.Email)
                /\ acctNow' = t[6]
        /\ UNCHANGED <<accounts, pending, lastChange, deleted, nonAccountVars>>

\* the account service on an empty database; the token services, which it
\* does not use, are constructed one way
InitAccount ==
    /\ Init
    /\ services = [id \in ServiceIDs |->
                     NewTokenService(SecretOf[id], MaxDuration, MaxDuration)]

\* the requests on the accounts table, while the clock stands still
\* what ChangePassword is asked for: the first account's password changed
\* from either password to either password, and the requests its checks
\* refuse
ChangeRequests ==
    { [userId |-> <<49>>, password |-> old, newPassword |-> new] :
        old \in Passwords, new \in Passwords }
    \cup { [userId |-> <<50>>, password |-> <<113>>, newPassword |-> <<112>>],
           [userId |-> <<49>>, password |-> <<112>>, newPassword |-> <<>>] }

NextAccount ==
    \/ \E e \in AccountEmails \cup {<<>>}, pw \in {<<112>>, <<>>} :
          \E t \in StillReadings(4) : DoRegister(e, pw, <<110>>, t)
    \/ \E e \in AccountEmails, pw \in Passwords \cup {<<>>} :
          \E t \in StillReadings(4) : DoLogin(e, pw, t)
    \/ \E id \in AccountIDs \cup {<<>>} : DoGetProfile(id)
    \/ \E id \in AccountIDs \cup {<<>>} : DoUpdateProfile(id, <<109>>)
    \/ \E c \in Clients, q \in ChangeRequests :
          BeginChangePassword(c, q.userId, q.password, q.newPassword)
    \/ \E c \in Clients : EndChangePassword(c)
    \/ \E id \in AccountIDs \cup {<<>>} : DoDeleteAccount(id)

SpecAccount == InitAccount /\ [][NextAccount]_vars

\* the requests that issue and read tokens, while the clock moves
NextAccountTokens ==
    \/ \E t \in AccountReadings(4) : DoRegister(<<97>>, <<112>>, <<110>>, t)
    \/ \E pw \in Passwords : \E t \in AccountReadings(4) : DoLogin(<<97>>, pw, t)
    \/ \E tok \in AccountTokens : \E t \in AccountReadings(2) : DoVerifyToken(tok, t)
    \/ \E tok \in AccountTokens : \E t \in AccountReadings(6) : DoRefreshToken(tok, t)

SpecAccountTokens == InitAccount /\ [][NextAccountTokens]_vars

----------------------------------------------------------------------------
(* C11: a token pair is all or nothing *)

\* C11: GenerateTokenPair issues the access token, then the refresh token;
\* when either issuance fails, the first or the second after the first
\* succeeded, it returns an error and two empty strings, never the access
\* token alone; when both succeed it returns no error
C11_AllOrNothing ==
    (last.op = "GenerateTokenPair")
        => IF pair.signs = <<TRUE, TRUE>>
               THEN pair.err = NoError
               ELSE /\ pair.err # NoError
                    /\ pair.accessToken = EmptyString
                    /\ pair.refreshToken = EmptyString

\* the access token was signed, the refresh token was not, and the caller
\* was handed the error and no token
C11_Witness ==
    /\ last.op = "GenerateTokenPair"
    /\ pair.signs = <<TRUE, FALSE>>
    /\ pair.err = ErrSigning
    /\ pair.accessToken = EmptyString
    /\ pair.refreshToken = EmptyString

----------------------------------------------------------------------------
(* C12: the two tokens of a pair *)

\* the last call was ValidateToken, on the issuing service, on one of the two
\* tokens of a pair that was issued without error
ValidatedPairToken ==
    /\ last.op = "ValidateToken"
    /\ pair # NoPair /\ pair.err = NoError
    /\ last.by = pair.by
    /\ last.tok \in {pair.accessToken, pair.refreshToken}

\* the returned claims carry the arguments of GenerateTokenPair
ClaimsMatchPairArguments ==
    /\ last.claims.UserID = pair.userID
    /\ last.claims.Email = pair.email
    /\ last.claims.Role = pair.role

\* the two tokens GenerateTokenPair returned without error are not empty
PairTokensNotEmpty ==
    (pair # NoPair /\ pair.err = NoError)
        => (pair.accessToken # EmptyString /\ pair.refreshToken # EmptyString)

\* C12 as stated: on success GenerateTokenPair returns two non-empty tokens;
\* each validates under ValidateToken on the same service and carries the
\* user id, email and role that were passed in, whatever they are (read for
\* a token that has not reached its expiry)
C12_PairValidAnyArguments ==
    /\ PairTokensNotEmpty
    /\ (ValidatedPairToken /\ last.at < last.tok[2].exp)
           => (last.err = NoError /\ ClaimsMatchPairArguments)

\* C12 amended: on success GenerateTokenPair returns two non-empty tokens;
\* for arguments that are valid UTF-8, each validates under ValidateToken on
\* the same service and carries the user id, email and role that were passed
\* in (read, as above, for a token that has not reached its expiry)
C12_PairValid ==
    /\ PairTokensNotEmpty
    /\ (/\ ValidatedPairToken /\ last.at < last.tok[2].exp
        /\ ValidUTF8(pair.userID) /\ ValidUTF8(pair.email) /\ ValidUTF8(pair.role))
           => (last.err = NoError /\ ClaimsMatchPairArguments)

\* the refresh token of a pair validated and returned the role of the pair
C12_Witness ==
    /\ ValidatedPairToken
    /\ last.tok = pair.refreshToken
    /\ last.tok # pair.accessToken
    /\ last.err = NoError
    /\ last.claims.UserID = pair.userID
    /\ last.claims.Email = pair.email
    /\ last.claims.Role = <<82>>

----------------------------------------------------------------------------
(* C13: each kind of token uses its own duration *)

\* the tolerance of TestTokenService_DifferentDurations
OneMinute == 60 * TicksPerSecond

\* expires_at - issued_at as the token carries them
Gap(tok) == tok[2].exp - tok[2].iat

\* x is within the tolerance of d
WithinTolerance(x, d) == x - d <= OneMinute /\ d - x <= OneMinute

\* C13: the gap expires_at - issued_at of an issued access token is within
\* one minute of the access duration and that of an issued refresh token
\* within one minute of the refresh duration; when the two durations are
\* more than two minutes apart, neither gap is within one minute of the
\* other duration
C13_DurationConfigurability ==
    (pair # NoPair /\ pair.err = NoError)
        => LET a == services[pair.by].accessTokenDuration
               r == services[pair.by].refreshTokenDuration
           IN  /\ WithinTolerance(Gap(pair.accessToken), a)
               /\ WithinTolerance(Gap(pair.refreshToken), r)
               /\ (r - a > 2 * OneMinute \/ a - r > 2 * OneMinute)
                      => /\ ~WithinTolerance(Gap(pair.accessToken), r)
                         /\ ~WithinTolerance(Gap(pair.refreshToken), a)

\* a service of thirty minutes and fourteen days issued a pair whose access
\* gap is not the access duration to the tick, yet within the tolerance
C13_Witness ==
    /\ pair # NoPair /\ pair.err = NoError
    /\ services[pair.by].accessTokenDuration = ThirtyMinutes
    /\ services[pair.by].refreshTokenDuration = FourteenDays
    /\ Gap(pair.accessToken) # ThirtyMinutes
    /\ WithinTolerance(Gap(pair.accessToken), ThirtyMinutes)
    /\ WithinTolerance(Gap(pair.refreshToken), FourteenDays)

----------------------------------------------------------------------------
(* C20: expires_at and issued_at *)

\* the duration a token of the pair was issued with, and by how much the
\* clock advanced between the two readings of its issuance
PairAccessDuration == services[pair.by].accessTokenDuration
PairRefreshDuration == services[pair.by].refreshTokenDuration
PairAccessAdvance == pair.t[2] - pair.t[1]
PairRefreshAdvance == pair.t[4] - pair.t[3]

\* C20 as stated: in every issued token expires_at is strictly after
\* issued_at, for every configured duration and every clock value
C20_ExpiresStrictlyAfterIssued ==
    (pair # NoPair /\ pair.err = NoError)
        => /\ pair.accessToken[2].exp > pair.accessToken[2].iat
           /\ pair.refreshToken[2].exp > pair.refreshToken[2].iat

\* C20 amended: expires_at is strictly after issued_at in every token whose
\* duration is at least one second longer than the time the clock advanced
\* between the two readings of the issuance; with a shorter duration
\* expires_at is not before issued_at as long as the clock advanced by no
\* more than the duration, and may equal it
C20_ExpiresAfterIssued ==
    (pair # NoPair /\ pair.err = NoError)
        => /\ (PairAccessDuration >= TicksPerSecond + PairAccessAdvance)
                  => pair.accessToken[2].exp > pair.accessToken[2].iat
           /\ (PairRefreshDuration >= TicksPerSecond + PairRefreshAdvance)
                  => pair.refreshToken[2].exp > pair.refreshToken[2].iat
           /\ (PairAccessDuration >= PairAccessAdvance)
                  => pair.accessToken[2].exp >= pair.accessToken[2].iat
           /\ (PairRefreshDuration >= PairRefreshAdvance)
                  => pair.refreshToken[2].exp >= pair.refreshToken[2].iat

\* a refresh token of one second, issued while the clock stood still off a
\* whole second, expires after it was issued
C20_Witness ==
    /\ pair # NoPair /\ pair.err = NoError
    /\ PairRefreshDuration = TicksPerSecond
    /\ PairRefreshAdvance = 0
    /\ pair.t[3] % TicksPerSecond # 0
    /\ pair.refreshToken[2].exp > pair.refreshToken[2].iat

----------------------------------------------------------------------------
(* C15: VerifyToken of the account service *)

\* the presented token carries an expiry that had passed when the token was
\* validated
ExpiredWhenVerified ==
    /\ WellFormed(rpc.token)
    /\ rpc.token[2].exp # Nil
    /\ rpc.token[2].exp <= rpc.at

\* C15: VerifyToken refuses an empty token with InvalidArgument; for a token
\* that is malformed, not signed under the secret of the service, or expired
\* it answers valid = false without an error; for a token the service
\* issued, not expired by the end of the call, it answers valid = true with
\* the user id the token was issued for
C15_VerifyToken ==
    (rpc.op = "VerifyToken")
        => /\ (rpc.token = EmptyString) => (rpc.code = InvalidArgument)
           /\ (/\ rpc.token # EmptyString
               /\ (\/ ~AuthenticUnder(rpc.token, AccountSecret)
                   \/ ExpiredWhenVerified))
                  => (rpc.code = OK /\ ~rpc.valid)
           /\ (/\ rpc.token \in {held.accessToken, held.refreshToken}
               /\ acctNow < rpc.token[2].exp)
                  => (rpc.code = OK /\ rpc.valid /\ rpc.respUserId = held.userID)

\* the access token the service returned was presented after its fifteen
\* minutes and answered with valid = false, no error
C15_Witness ==
    /\ rpc.op = "VerifyToken"
    /\ rpc.token = held.accessToken
    /\ ExpiredWhenVerified
    /\ rpc.at < SevenDays
    /\ rpc.code = OK
    /\ ~rpc.valid

----------------------------------------------------------------------------
(* C16: a deleted account stays deleted *)

\* the accounts DeleteAccount succeeded for that hold the e-mail
DeletedWithEmail(email) ==
    {id \in deleted : accounts[id].email = email}

\* C16: once DeleteAccount has succeeded for an account, in every later
\* state the account is inactive, a Login with its e-mail fails whatever the
\* password, and a GetProfile, UpdateProfile or ChangePassword for its id
\* fails
C16_SoftDelete ==
    /\ \A id \in deleted : id \in DOMAIN accounts /\ ~accounts[id].is_active
    /\ (rpc.op = "Login" /\ DeletedWithEmail(rpc.email) # {})
           => rpc.code # OK
    /\ (rpc.op \in {"GetProfile", "UpdateProfile", "ChangePassword"}
           /\ rpc.userId \in deleted)
           => rpc.code # OK

\* a Login with the e-mail and the password of a deleted account was
\* answered Unauthenticated
C16_Witness ==
    /\ rpc.op = "Login"
    /\ rpc.code = Unauthenticated
    /\ \E id \in DeletedWithEmail(rpc.email) :
           CompareHashAndPassword(accounts[id].password_hash, rpc.password)

----------------------------------------------------------------------------
(* C17: ChangePassword *)

\* the step answers a ChangePassword request at its checks, before it
\* reaches UpdatePassword
ChangePasswordAnswered ==
    rpc' # rpc /\ rpc'.op = "ChangePassword" /\ pending' = pending

\* the request answered by the step is well-formed, for an active account
ChangeRequestServed ==
    /\ rpc'.password # <<>> /\ rpc'.newPassword # <<>>
    /\ rpc'.userId \in DOMAIN accounts
    /\ accounts[rpc'.userId].is_active

\* the step is the UpdatePassword of the client's ChangePassword request,
\* whose old password matched, for an account that is still active
ChangePasswordEnds(c) ==
    /\ pending[c] # NoPending
    /\ pending'[c] = NoPending
    /\ accounts[pending[c].userId].is_active

\* the step is a Login with the e-mail of the account whose password was
\* changed last, that account not having been deleted since
LoginAfterChange ==
    /\ rpc' # rpc /\ rpc'.op = "Login"
    /\ lastChange # NoPending
    /\ accounts[lastChange.userId].email = rpc'.email

\* what the step of a handler does about the old password of a
\* ChangePassword request: a request is answered at the comparison exactly
\* when the old password does not match the hash GetByID read, with
\* Unauthenticated and an unchanged table; a request whose old password
\* matched succeeds and stores the hash of the new password, whatever other
\* requests did to the account in between
ChangeRequestServed_Step ==
    /\ (ChangePasswordAnswered /\ ChangeRequestServed)
           => /\ ~CompareHashAndPassword(accounts[rpc'.userId].password_hash,
                                         rpc'.password)
              /\ rpc'.code = Unauthenticated
              /\ accounts' = accounts
    /\ \A c \in Clients :
           (pending'[c] # pending[c] /\ pending'[c] # NoPending)
               => /\ pending[c] = NoPending
                  /\ accounts[pending'[c].userId].is_active
                  /\ CompareHashAndPassword(
                         accounts[pending'[c].userId].password_hash,
                         pending'[c].password)
                  /\ accounts' = accounts
    /\ \A c \in Clients :
           ChangePasswordEnds(c)
               => /\ rpc'.op = "ChangePassword"
                  /\ rpc'.code = OK
                  /\ rpc'.userId = pending[c].userId
                  /\ rpc'.password = pending[c].password
                  /\ rpc'.newPassword = pending[c].newPassword
                  /\ accounts' =
                         [accounts EXCEPT ![pending[c].userId].password_hash =
                             GenerateFromPassword(pending[c].newPassword)]
                  /\ lastChange' = pending[c]

\* what the step of a handler does about ChangePassword, as stated: a
\* matching old password means success, after which the new password logs
\* in and the old one does not; another old password means Unauthenticated
\* and an unchanged table
ChangePasswordAsStated ==
    /\ ChangeRequestServed_Step
    /\ LoginAfterChange
           => /\ (rpc'.password = lastChange.newPassword) => (rpc'.code = OK)
              /\ (rpc'.password = lastChange.password)
                     => (rpc'.code = Unauthenticated)

\* the statement of C17 taken literally
C17_ChangePasswordAsStated == [][ChangePasswordAsStated]_vars

\* what the step of a handler does about ChangePassword
ChangePasswordStep ==
    /\ ChangeRequestServed_Step
    /\ LoginAfterChange
           => /\ (rpc'.password = lastChange.newPassword) => (rpc'.code = OK)
              /\ (/\ rpc'.password = lastChange.password
                  /\ lastChange.password # lastChange.newPassword)
                     => (rpc'.code = Unauthenticated)

\* C17: a ChangePassword with a non-empty old and new password, for an
\* account that is active, succeeds when the old password matches the hash
\* the call read and stores the hash of the new password; from then on,
\* until the password is changed again or the account is deleted, Login
\* succeeds with the new password and fails with the old one when the two
\* differ. When the old password does not match, the call fails with
\* Unauthenticated and the accounts table is unchanged
C17_ChangePassword == [][ChangePasswordStep]_vars

\* a Login with the old password was refused after a change to another
\* password
C17_Witness ==
    /\ rpc.op = "Login"
    /\ rpc.code = Unauthenticated
    /\ lastChange # NoPending
    /\ accounts[lastChange.userId].email = rpc.email
    /\ rpc.password = lastChange.password
    /\ lastChange.password # lastChange.newPassword

----------------------------------------------------------------------------
(* Catalog service: the repository *)

\* errors of the repository
ErrProductNotFound == "product not found"
ErrCreateProduct == "failed to create product"
ErrUpdateProduct == "failed to update product"

\* the ids uuid.New() hands out and the SKUs of the requests
ProductIDs == { <<49>>, <<50>> }
SKUs == { <<83>>, <<84>> }

\* price DECIMAL(10, 2): the column keeps hundredths, and a value with more
\* decimals is rounded to the nearest one, a half away from zero
ThousandthsPerHundredth == 10
Decimal(price) ==
    LET abs == IF price < 0 THEN -price ELSE price
        rounded == ((abs + ThousandthsPerHundredth \div 2)
                        \div ThousandthsPerHundredth) * ThousandthsPerHundredth
    IN  IF price < 0 THEN -rounded ELSE rounded

\* a row as a statement returns it
Row(prods, id) ==
    [op |-> "", id |-> id, name |-> prods[id].name, sku |-> prods[id].sku,
     price |-> prods[id].price, stock |-> prods[id].stock]

\* mutant: products.sku without the UNIQUE constraint
RepoCreateProduct_NoUnique(prods, id, p) ==
    IF \/ Decimal(p.price) < 0
       \/ p.stock < 0
        THEN [prods |-> prods, product |-> NoRequest, err |-> ErrCreateProduct]
    ELSE LET new == [i \in DOMAIN prods \cup {id} |->
                        IF i = id
                            THEN [name |-> p.name, sku |-> p.sku,
                                  price |-> Decimal(p.price), stock |-> p.stock]
                        ELSE prods[i]]
         IN  [prods |-> new, product |-> Row(new, id), err |-> NoError]

\* postgresRepository.Create: INSERT ... RETURNING, refused by sku UNIQUE and
\* by the CHECKs on price and stock
RepoCreateProduct(prods, id, p) ==
    IF \/ \E i \in DOMAIN prods : prods[i].sku = p.sku
       \/ Decimal(p.price) < 0
       \/ p.stock < 0
        THEN [prods |-> prods, product |-> NoRequest, err |-> ErrCreateProduct]
    ELSE LET new == [i \in DOMAIN prods \cup {id} |->
                        IF i = id
                            THEN [name |-> p.name, sku |-> p.sku,
                                  price |-> Decimal(p.price), stock |-> p.stock]
                        ELSE prods[i]]
         IN  [prods |-> new, product |-> Row(new, id), err |-> NoError]

\* postgresRepository.GetByID
RepoGetProductByID(prods, id) ==
    IF id \in DOMAIN prods THEN [product |-> Row(prods, id), err |-> NoError]
    ELSE [product |-> NoRequest, err |-> ErrProductNotFound]

\* mutant: the lookup by SKU finds nothing
RepoGetBySKU_NoRows(prods, sku) ==
    [product |-> NoRequest, err |-> ErrProductNotFound]

\* postgresRepository.GetBySKU
RepoGetBySKU(prods, sku) ==
    LET S == {i \in DOMAIN prods : prods[i].sku = sku}
    IN  IF S = {} THEN [product |-> NoRequest, err |-> ErrProductNotFound]
        ELSE [product |-> Row(prods, CHOOSE i \in S : TRUE), err |-> NoError]

\* mutant: the UPDATE does not set the price
RepoUpdateProduct_KeepsPrice(prods, p) ==
    IF p.id \notin DOMAIN prods
        THEN [prods |-> prods, product |-> NoRequest, err |-> ErrProductNotFound]
    ELSE LET new == [prods EXCEPT ![p.id].name = p.name, ![p.id].stock = p.stock]
         IN  [prods |-> new, product |-> Row(new, p.id), err |-> NoError]

\* mutant: an UPDATE that inserts the row when it is not there
RepoUpdateProduct_Upsert(prods, p) ==
    LET new == [i \in DOMAIN prods \cup {p.id} |->
                   IF i = p.id
                       THEN [name |-> p.name, sku |-> p.sku,
                             price |-> Decimal(p.price), stock |-> p.stock]
                   ELSE prods[i]]
    IN  [prods |-> new, product |-> Row(new, p.id), err |-> NoError]

\* postgresRepository.Update: UPDATE ... SET name, description, price, stock,
\* images, category WHERE id = $8 RETURNING the row; the sku is not set. No
\* row with the id gives sql.ErrNoRows; a row that would break the CHECKs on
\* price and stock is refused and stays as it was
RepoUpdateProduct(prods, p) ==
    IF p.id \notin DOMAIN prods
        THEN [prods |-> prods, product |-> NoRequest, err |-> ErrProductNotFound]
    ELSE IF Decimal(p.price) < 0 \/ p.stock < 0
        THEN [prods |-> prods, product |-> NoRequest, err |-> ErrUpdateProduct]
    ELSE LET new == [prods EXCEPT ![p.id].name = p.name,
                                  ![p.id].price = Decimal(p.price),
                                  ![p.id].stock = p.stock]
         IN  [prods |-> new, product |-> Row(new, p.id), err |-> NoError]

\* postgresRepository.Delete: DELETE FROM products WHERE id = $1
RepoDeleteProduct(prods, id) ==
    IF id \notin DOMAIN prods THEN [prods |-> prods, err |-> ErrProductNotFound]
    ELSE [prods |-> [i \in DOMAIN prods \ {id} |-> prods[i]], err |-> NoError]

----------------------------------------------------------------------------
(* Catalog service: the handlers *)

\* a request; description, images and category travel as the name does
Request(op, id, name, sku, price, stock) ==
    [op |-> op, id |-> id, name |-> name, sku |-> sku, price |-> price,
     stock |-> stock]

\* the response to a request
Response(req, code) == [req |-> req, code |-> code]

\* the id uuid.New() hands to postgresRepository.Create: one never used
FreshProductID ==
    IF ProductIDs \subseteq DOMAIN history THEN <<>>
    ELSE CHOOSE i \in ProductIDs : i \notin DOMAIN history

\* CreateProduct up to GetBySKU: the checks of the request and the lookup of
\* the SKU. A request that passes them is left before its INSERT
BeginCreateProduct(c, name, sku, price, stock) ==
    LET req == Request("CreateProduct", <<>>, name, sku, price, stock)
    IN  /\ inflight[c] = NoRequest
        /\ IF name = <<>> \/ sku = <<>> \/ price <= 0 \/ stock < 0
               THEN catRpc' = Response(req, InvalidArgument)
                    /\ UNCHANGED inflight
           ELSE IF RepoGetBySKU(products, sku).err = NoError
               THEN catRpc' = Response(req, AlreadyExists)
                    /\ UNCHANGED inflight
           ELSE inflight' = [inflight EXCEPT ![c] = req]
                /\ UNCHANGED catRpc
        /\ UNCHANGED <<products, history, nonCatalogVars>>

\* the rest of CreateProduct: postgresRepository.Create
EndCreateProduct(c) ==
    LET req == inflight[c]
        r == RepoCreateProduct(products, FreshProductID, req)
    IN  /\ req.op = "CreateProduct"
        /\ FreshProductID # <<>> \/ r.err # NoError
        /\ IF r.err # NoError
               THEN catRpc' = Response(req, Internal)
                    /\ UNCHANGED <<products, history>>
           ELSE catRpc' = Response(req, OK)
                /\ products' = r.prods
                /\ history' = [i \in DOMAIN history \cup {r.product.id} |->
                                  IF i = r.product.id
                                      THEN [sku |-> req.sku, last |-> NoRequest]
                                  ELSE history[i]]
        /\ inflight' = [inflight EXCEPT ![c] = NoRequest]
        /\ UNCHANGED nonCatalogVars

\* UpdateProduct up to GetByID: the checks of the request and the lookup of
\* the product, whose SKU goes into the Product handed to the repository
BeginUpdateProduct(c, id, name, price, stock) ==
    LET req == Request("UpdateProduct", id, name, <<>>, price, stock)
        existing == RepoGetProductByID(products, id)
    IN  /\ inflight[c] = NoRequest
        /\ IF id = <<>> \/ name = <<>> \/ price <= 0 \/ stock < 0
               THEN catRpc' = Response(req, InvalidArgument)
                    /\ UNCHANGED inflight
           ELSE IF existing.err # NoError
               THEN catRpc' = Response(req, NotFound)
                    /\ UNCHANGED inflight
           ELSE inflight' = [inflight EXCEPT ![c] =
                                [req EXCEPT !.id = existing.product.id,
                                            !.sku = existing.product.sku]]
                /\ UNCHANGED catRpc
        /\ UNCHANGED <<products, history, nonCatalogVars>>

\* the rest of UpdateProduct: postgresRepository.Update
EndUpdateProduct(c) ==
    LET p == inflight[c]
        req == [p EXCEPT !.sku = <<>>]
        r == RepoUpdateProduct(products, p)
    IN  /\ p.op = "UpdateProduct"
        /\ IF r.err # NoError
               THEN catRpc' = Response(req, Internal)
                    /\ UNCHANGED <<products, history>>
           ELSE catRpc' = Response(req, OK)
                /\ products' = r.prods
                /\ history' = [history EXCEPT ![p.id].last = req]
        /\ inflight' = [inflight EXCEPT ![c] = NoRequest]
        /\ UNCHANGED nonCatalogVars

\* DeleteProduct
DoDeleteProduct(id) ==
    LET req == Request("DeleteProduct", id, <<>>, <<>>, 0, 0)
        d == RepoDeleteProduct(products, id)
    IN  /\ IF id = <<>>
               THEN catRpc' = Response(req, InvalidArgument)
                    /\ UNCHANGED products
           ELSE IF d.err # NoError
               THEN catRpc' = Response(req, NotFound)
                    /\ UNCHANGED products
           ELSE catRpc' = Response(req, OK)
                /\ products' = d.prods
        /\ UNCHANGED <<inflight, history, nonCatalogVars>>

\* GetProduct
DoGetProduct(id) ==
    LET req == Request("GetProduct", id, <<>>, <<>>, 0, 0)
    IN  /\ IF id = <<>>
               THEN catRpc' = Response(req, InvalidArgument)
           ELSE IF RepoGetProductByID(products, id).err # NoError
               THEN catRpc' = Response(req, NotFound)
           ELSE catRpc' = Response(req, OK)
        /\ UNCHANGED <<products, inflight, history, nonCatalogVars>>

\* what CreateProduct is asked for: a product under either SKU, and the
\* requests its checks refuse. A price is counted in thousandths, so that
\* more decimals than the column keeps can be asked for, and stays below the
\* largest value the column holds
CreateRequests ==
    { Request("CreateProduct", <<>>, <<110>>, sku, 10, 0) : sku \in SKUs }
    \cup { Request("CreateProduct", <<>>, <<>>, <<83>>, 10, 0),
           Request("CreateProduct", <<>>, <<110>>, <<>>, 10, 0),
           Request("CreateProduct", <<>>, <<110>>, <<83>>, 0, 0),
           Request("CreateProduct", <<>>, <<110>>, <<83>>, 10, -1) }

\* what UpdateProduct is asked for: two sets of new values, one of them with
\* a price of 0.004, and the requests its checks refuse
UpdateRequests ==
    { Request("UpdateProduct", id, <<111>>, <<>>, 4, 3) : id \in ProductIDs }
    \cup { Request("UpdateProduct", id, <<112>>, <<>>, 20, 5) : id \in ProductIDs }
    \cup { Request("UpdateProduct", <<>>, <<111>>, <<>>, 4, 3),
           Request("UpdateProduct", <<49>>, <<>>, <<>>, 4, 3),
           Request("UpdateProduct", <<49>>, <<111>>, <<>>, 0, 3),
           Request("UpdateProduct", <<49>>, <<111>>, <<>>, 4, -1) }

\* the requests of two clients of the catalog service
NextCatalog ==
    \/ \E c \in Clients, q \in CreateRequests :
          BeginCreateProduct(c, q.name, q.sku, q.price, q.stock)
    \/ \E c \in Clients : EndCreateProduct(c)
    \/ \E c \in Clients, q \in UpdateRequests :
          BeginUpdateProduct(c, q.id, q.name, q.price, q.stock)
    \/ \E c \in Clients : EndUpdateProduct(c)
    \/ \E id \in ProductIDs \cup {<<>>} : DoDeleteProduct(id)
    \/ \E id \in ProductIDs \cup {<<>>} : DoGetProduct(id)

SpecCatalog == InitAccount /\ [][NextCatalog]_vars

----------------------------------------------------------------------------
(* C18: SKU uniqueness *)

\* no two rows of the table share an SKU
SKUsUnique(prods) ==
    \A i, j \in DOMAIN prods : (prods[i].sku = prods[j].sku) => (i = j)

\* the step is a CreateProduct call for the SKU: the call is answered by the
\* step, or leaves the step on its way to the INSERT
CreateProductCalled(sku) ==
    \/ /\ inflight' = inflight
       /\ catRpc' # catRpc
       /\ catRpc'.req.op = "CreateProduct"
       /\ catRpc'.req.sku = sku
    \/ \E c \in Clients :
          /\ inflight'[c] # inflight[c]
          /\ inflight'[c].op = "CreateProduct"
          /\ inflight'[c].sku = sku

\* a product in the table has the SKU
SKUTaken(sku) == \E i \in DOMAIN products : products[i].sku = sku

\* C18 as stated: a CreateProduct called with an SKU that an existing
\* product has fails with AlreadyExists and creates no product, and no two
\* products share an SKU
C18_SKUUniqueAsStated ==
    [][/\ \A sku \in SKUs :
             (CreateProductCalled(sku) /\ SKUTaken(sku))
                 => /\ inflight' = inflight
                    /\ catRpc'.code = AlreadyExists
                    /\ products' = products
       /\ SKUsUnique(products')]_vars

\* C18: a CreateProduct called with an SKU that an existing product has
\* never reaches the INSERT and creates no product; it fails with
\* AlreadyExists when it has a name, a price above zero and a stock of zero
\* or more, and with InvalidArgument when it has not; under every
\* interleaving of the requests no two products share an SKU
C18_SKUUnique ==
    [][/\ \A sku \in SKUs :
             (CreateProductCalled(sku) /\ SKUTaken(sku))
                 => /\ inflight' = inflight
                    /\ catRpc'.code =
                           IF \/ catRpc'.req.name = <<>>
                              \/ catRpc'.req.price <= 0
                              \/ catRpc'.req.stock < 0
                               THEN InvalidArgument
                           ELSE AlreadyExists
                    /\ products' = products
       /\ SKUsUnique(products')]_vars

\* a CreateProduct for the SKU of a product in the table was answered
\* AlreadyExists, with one product in the table
C18_Witness ==
    /\ catRpc.req.op = "CreateProduct"
    /\ catRpc.code = AlreadyExists
    /\ \E i \in DOMAIN products : products[i].sku = catRpc.req.sku
    /\ Cardinality(DOMAIN products) = 1

----------------------------------------------------------------------------
(* C19: SKU immutability *)

\* the product was updated, and holds the name and the stock of the last
\* update that succeeded
HoldsLastUpdate(id) ==
    /\ history[id].last # NoRequest
    /\ products[id].name = history[id].last.name
    /\ products[id].stock = history[id].last.stock

\* the statement of C19 taken literally: the price is the one of the last
\* update that succeeded
C19_LastUpdateValues ==
    \A id \in DOMAIN products :
        /\ products[id].sku = history[id].sku
        /\ (history[id].last # NoRequest)
               => /\ HoldsLastUpdate(id)
                  /\ products[id].price = history[id].last.price

\* C19: after any sequence of requests a product has the SKU it was created
\* with, and once updated it has the name and the stock of the last update
\* that succeeded and that update's price rounded to two decimals
C19_SKUImmutable ==
    \A id \in DOMAIN products :
        /\ products[id].sku = history[id].sku
        /\ (history[id].last # NoRequest)
               => /\ HoldsLastUpdate(id)
                  /\ products[id].price = Decimal(history[id].last.price)

\* a product was updated to a price of 0.004 and holds 0.00, under the SKU
\* it was created with
C19_Witness ==
    \E id \in DOMAIN products :
        /\ HoldsLastUpdate(id)
        /\ history[id].last.price = 4
        /\ products[id].price = 0
        /\ products[id].sku = history[id].sku

----------------------------------------------------------------------------
(* C21: expires_at, issued_at and the duration *)

\* an instant cut down to the whole second
WholeSeconds(t) == t - (t % TicksPerSecond)

\* the claims are those of a token issued with duration d at the clock
\* readings t0 and t1: each instant is cut down to the whole second, so that
\* expires_at is issued_at + d when d is a whole number of seconds and the
\* two readings fall into the same second, and is otherwise less than a
\* second after issued_at + d
RecoveredFrom(c, t0, t1, d) ==
    /\ c.ExpiresAt = WholeSeconds(t0 + d)
    /\ c.IssuedAt = WholeSeconds(t1)
    /\ (d % TicksPerSecond = 0 /\ WholeSeconds(t0) = WholeSeconds(t1))
           => c.ExpiresAt = c.IssuedAt + d
    /\ c.ExpiresAt < c.IssuedAt + d + TicksPerSecond

\* C21 as stated: the claims ValidateToken recovers from an issued token
\* have expires_at equal to issued_at plus the duration of the token's kind
C21_ExpiresAtIssuedPlusDuration ==
    (ValidatedPairToken /\ last.err = NoError)
        => /\ (last.tok = pair.accessToken)
                  => last.claims.ExpiresAt =
                         last.claims.IssuedAt + PairAccessDuration
           /\ (last.tok = pair.refreshToken)
                  => last.claims.ExpiresAt =
                         last.claims.IssuedAt + PairRefreshDuration

\* C21 amended: the claims ValidateToken recovers from an issued token have
\* expires_at equal to the first clock reading of the issuance plus the
\* duration of the token's kind, cut down to the whole second, and issued_at
\* equal to the second reading, cut down to the whole second; expires_at is
\* issued_at plus the duration when the duration is a whole number of
\* seconds and both readings fall into one second
C21_ExpiresAtTruncated ==
    (ValidatedPairToken /\ last.err = NoError)
        => /\ (last.tok = pair.accessToken)
                  => RecoveredFrom(last.claims, pair.t[1], pair.t[2],
                                   PairAccessDuration)
           /\ (last.tok = pair.refreshToken)
                  => RecoveredFrom(last.claims, pair.t[3], pair.t[4],
                                   PairRefreshDuration)

\* an access token of fifteen minutes, issued off a whole second while the
\* clock stood still, was validated: its expires_at is its issued_at plus
\* fifteen minutes, and neither is a reading of the clock
C21_Witness ==
    /\ ValidatedPairToken /\ last.err = NoError
    /\ last.tok = pair.accessToken
    /\ PairAccessDuration = FifteenMinutes
    /\ pair.t[1] % TicksPerSecond # 0
    /\ pair.t[2] = pair.t[1]
    /\ last.claims.ExpiresAt = last.claims.IssuedAt + FifteenMinutes
    /\ last.claims.IssuedAt # pair.t[2]

----------------------------------------------------------------------------
(* C22: TokenExpired is reserved for authentic tokens *)

\* the presented string carries an expiry that had passed at the call
PastExpiry ==
    /\ Len(last.tok) = 3
    /\ last.tok[2].seg = "payload"
    /\ last.tok[2].exp # Nil
    /\ last.tok[2].exp <= last.at

\* C22: ValidateToken returns TokenExpired only for a well-formed token,
\* signed with an HMAC under the secret of the service, whose expiry has
\* passed; a token that is malformed, signed under another secret or not
\* signed with an HMAC yields InvalidToken, past its expiry or not; a call
\* that fails returns one of the two errors and no claims
C22_ExpiredOnlyIfAuthentic ==
    (last.op = "ValidateToken")
        => /\ (last.err = ErrTokenExpired)
                  => /\ AuthenticUnder(last.tok, services[last.by].secret)
                     /\ PastExpiry
           /\ (~AuthenticUnder(last.tok, services[last.by].secret))
                  => last.err = ErrInvalidToken
           /\ last.err \in {NoError, ErrInvalidToken, ErrTokenExpired}
           /\ (last.err # NoError) => (last.claims = NilClaims)

\* an issued token was shown, past its expiry, to the service with the other
\* secret, and was refused as invalid
C22_Witness ==
    /\ ValidatedIssued
    /\ services[last.by].secret # services[issued.by].secret
    /\ PastExpiry
    /\ last.tok[2].exp > 0
    /\ last.err = ErrInvalidToken
    /\ last.claims = NilClaims

----------------------------------------------------------------------------
(* C23: an access token where a refresh token is expected *)

\* the token service and the account service share no state: a behaviour
\* issues and validates tokens on the token service, or sends requests to
\* the account service
NextInterchange ==
    \/ /\ rpc = NoRpc
       /\ \/ DoGenerateAccessToken(Issuer, <<117>>, <<101>>, <<82>>)
          \/ DoGenerateRefreshToken(Issuer, <<117>>, <<101>>, <<82>>)
          \/ issued # NoToken /\ DoValidateToken(Issuer, issued.tok)
    \/ /\ last = NoCall
       /\ NextAccountTokens

SpecInterchange == InitAccount /\ [][NextInterchange]_vars

\* the step is a RefreshToken on the access token the account service
\* returned last, which has not expired when the call ends
AccessTokenRefreshed ==
    /\ rpc'.op = "RefreshToken"
    /\ held # NoHeld
    /\ rpc'.token = held.accessToken
    /\ acctNow' < held.accessToken[2].exp

\* the tokens are a pair of the account service for the user and the e-mail
\* of h, the refresh token expiring a week after the call began
NewPairFor(h, tokens) ==
    /\ tokens.userID = h.userID
    /\ tokens.email = h.email
    /\ AuthenticUnder(tokens.accessToken, AccountSecret)
    /\ AuthenticUnder(tokens.refreshToken, AccountSecret)
    /\ tokens.accessToken[2].user_id = h.userID
    /\ tokens.refreshToken[2].user_id = h.userID
    /\ tokens.refreshToken[2].exp > rpc'.at + SevenDays - TicksPerSecond

\* C23: an access and a refresh token of the token service both pass
\* ValidateToken on the service that issued them until they expire, and the
\* RefreshToken of the account service, given an unexpired access token it
\* returned, succeeds and returns a new pair for the same user
C23_Interchangeable ==
    [][/\ (/\ last'.op = "ValidateToken" /\ issued' # NoToken
           /\ last'.tok = issued'.tok /\ last'.by = issued'.by
           /\ last'.at < issued'.tok[2].exp)
              => last'.err = NoError
       /\ AccessTokenRefreshed
              => (rpc'.code = OK /\ NewPairFor(held, held'))]_vars

\* RefreshToken was given an access token, fifteen minutes long, and
\* returned a pair that expires later
C23_Witness ==
    /\ rpc.op = "RefreshToken"
    /\ rpc.code = OK
    /\ WellFormed(rpc.token)
    /\ rpc.token[2].exp - rpc.token[2].iat <= FifteenMinutes
    /\ held.userID = rpc.respUserId
    /\ held.accessToken[2].exp > rpc.token[2].exp

----------------------------------------------------------------------------
(* C24: the claims of a refresh token *)

\* the last call validated the refresh token of the pair, before its expiry
ValidatedPairRefreshToken ==
    /\ ValidatedPairToken
    /\ last.tok = pair.refreshToken
    /\ last.at < last.tok[2].exp

\* C24 as stated: the refresh token of a pair validates to the user id, the
\* email and the role it was issued for, and its payload is that of the
\* access token of the pair but for the expiry
C24_SameClaimsButExpiry ==
    /\ ValidatedPairRefreshToken
           => (last.err = NoError /\ ClaimsMatchPairArguments)
    /\ (pair # NoPair /\ pair.err = NoError)
           => pair.refreshToken[2] =
                  [pair.accessToken[2] EXCEPT !.exp = pair.refreshToken[2].exp]

\* C24 amended: the refresh token of a pair issued for a user id, an email
\* and a role that are valid UTF-8 validates to that user id, email and
\* role; its payload has the fields of the access token of the pair, with
\* the same values but for the expiry and, when the clock passed a whole
\* second between the two issuances, the issue time
C24_SameClaimShape ==
    /\ (/\ ValidatedPairRefreshToken
        /\ ValidUTF8(pair.userID) /\ ValidUTF8(pair.email) /\ ValidUTF8(pair.role))
           => (last.err = NoError /\ ClaimsMatchPairArguments)
    /\ (pair # NoPair /\ pair.err = NoError)
           => /\ pair.refreshToken[2] =
                     [pair.accessToken[2] EXCEPT
                         !.exp = pair.refreshToken[2].exp,
                         !.iat = pair.refreshToken[2].iat]
              /\ (WholeSeconds(pair.t[2]) = WholeSeconds(pair.t[4]))
                     => pair.refreshToken[2].iat = pair.accessToken[2].iat

\* the refresh token of a pair validated to the role of the pair; it was
\* issued a second after the access token and differs from it in the issue
\* time as well
C24_Witness ==
    /\ ValidatedPairRefreshToken
    /\ last.err = NoError
    /\ last.claims.UserID = pair.userID
    /\ last.claims.Role = <<82>>
    /\ pair.refreshToken[2].iat > pair.accessToken[2].iat

----------------------------------------------------------------------------
(* C25: RefreshToken on an expired and on an invalid token *)

\* the token presented to the last request is signed under the secret of
\* the account service and carries an expiry that had passed when the
\* request came in
AuthenticButExpired ==
    /\ AuthenticUnder(rpc.token, AccountSecret)
    /\ ExpiredWhenVerified

\* C25: RefreshToken answers an authentic token that is past its expiry with
\* Unauthenticated and "refresh token expired", a malformed or forged token
\* with Unauthenticated and "invalid refresh token", and issues no tokens in
\* either case
C25_ExpiryDistinguished ==
    [][(rpc'.op = "RefreshToken")
          => /\ AuthenticButExpired'
                    => /\ rpc'.code = Unauthenticated
                       /\ rpc'.message = "refresh token expired"
                       /\ held' = held
             /\ (rpc'.token # EmptyString
                 /\ ~AuthenticUnder(rpc'.token, AccountSecret))
                    => /\ rpc'.code = Unauthenticated
                       /\ rpc'.message = "invalid refresh token"
                       /\ held' = held]_vars

\* the refresh token the service returned was presented a week later, after
\* its expiry, and was answered "invalid refresh token"
C25_Witness ==
    /\ rpc.op = "RefreshToken"
    /\ rpc.token = held.refreshToken
    /\ AuthenticButExpired
    /\ rpc.code = Unauthenticated
    /\ rpc.message = "invalid refresh token"

----------------------------------------------------------------------------
(* C26: tokens outlive the account *)

\* the tokens the account service returned last
HeldTokens ==
    IF held = NoHeld THEN {} ELSE {held.accessToken, held.refreshToken}

\* one user registers, logs in, changes the password, deletes the account
\* and presents the tokens of the account, while the clock moves
NextOutlive ==
    \/ \E t \in AccountReadings(4) : DoRegister(<<97>>, <<112>>, <<110>>, t)
    \/ \E pw \in Passwords : \E t \in StillReadings(4) : DoLogin(<<97>>, pw, t)
    \/ \E c \in Clients : BeginChangePassword(c, <<49>>, <<112>>, <<113>>)
    \/ \E c \in Clients : EndChangePassword(c)
    \/ DoDeleteAccount(<<49>>)
    \/ \E tok \in HeldTokens : \E t \in AccountReadings(2) : DoVerifyToken(tok, t)
    \/ \E tok \in HeldTokens : \E t \in AccountReadings(6) : DoRefreshToken(tok, t)

SpecOutlive == InitAccount /\ [][NextOutlive]_vars

\* the step presents one of the tokens returned last, which has not expired
\* when the call ends, and the account they were returned for has been
\* deleted, or has had its password changed, before the step
TokenOfFormerAccountPresented ==
    /\ held # NoHeld
    /\ held.userID \in deleted \/ held.userID = lastChange.userId
    /\ rpc'.token \in {held.accessToken, held.refreshToken}
    /\ acctNow' < rpc'.token[2].exp

\* C26: after DeleteAccount or ChangePassword for a user, a token issued to
\* that user before still yields valid = true from VerifyToken and a new
\* pair from RefreshToken, until its own expiry
C26_TokensOutliveAccount ==
    [][TokenOfFormerAccountPresented
          => /\ (rpc'.op = "VerifyToken")
                    => /\ rpc'.code = OK
                       /\ rpc'.valid
                       /\ rpc'.respUserId = held.userID
                       /\ held' = held
             /\ (rpc'.op = "RefreshToken")
                    => (rpc'.code = OK /\ NewPairFor(held, held'))]_vars

\* a new pair was returned for the refresh token of a deleted account
C26_Witness ==
    /\ rpc.op = "RefreshToken"
    /\ rpc.code = OK
    /\ rpc.respUserId \in deleted
    /\ ~accounts[rpc.respUserId].is_active
    /\ held.userID = rpc.respUserId
    /\ rpc.token[2].exp - rpc.token[2].iat > FifteenMinutes

----------------------------------------------------------------------------
(* C27: refresh tokens are not single-use *)

\* the instants of a session that outlasts its first refresh token
SessionInstants ==
    {0, FifteenMinutes, SevenDays, SevenDays + TicksPerSecond,
     SevenDays + FifteenMinutes}

\* k successive clock readings of one call, over the session's instants
SessionReadings(k) ==
    { [i \in 1..k |-> IF i <= j THEN acctNow ELSE later] :
        j \in 0..k, later \in {u \in SessionInstants : u >= acctNow} }

\* the refresh token Register returns at instant 0
FirstRefreshToken ==
    generateTokens(<<49>>, <<97>>, <<0, 0, 0, 0>>).refreshToken

\* the refresh tokens the service has returned and the client still has:
\* the first one and the one returned last
RefreshTokensReturned ==
    IF held = NoHeld THEN {} ELSE {FirstRefreshToken, held.refreshToken}

\* a user registers at instant 0 and keeps exchanging refresh tokens
NextSession ==
    \/ \E t \in StillReadings(4) : DoRegister(<<97>>, <<112>>, <<110>>, t)
    \/ \E tok \in RefreshTokensReturned :
          \E t \in SessionReadings(6) : DoRefreshToken(tok, t)

SpecSession == InitAccount /\ [][NextSession]_vars

\* the step is a RefreshToken call with a refresh token returned before,
\* which has not expired when the call ends
RefreshTokenExchanged ==
    /\ held # NoHeld
    /\ rpc'.op = "RefreshToken"
    /\ rpc'.token \in {FirstRefreshToken, held.refreshToken}
    /\ acctNow' < rpc'.token[2].exp

\* C27: an unexpired refresh token is exchanged however often it was
\* exchanged before, each exchange returns a pair with the user id and
\* e-mail of the token presented, and the refresh token of that pair outlives
\* the one presented
C27_RefreshRepeatable ==
    [][RefreshTokenExchanged
          => /\ rpc'.code = OK
             /\ rpc'.respUserId = rpc'.token[2].user_id
             /\ NewPairFor([userID |-> rpc'.token[2].user_id,
                            email |-> rpc'.token[2].email], held')
             /\ held'.accessToken[2].email = rpc'.token[2].email
             /\ held'.refreshToken[2].email = rpc'.token[2].email
             /\ held'.refreshToken[2].exp >= rpc'.token[2].exp]_vars

\* a refresh token that a previous exchange returned was exchanged after the
\* first refresh token had expired
C27_Witness ==
    /\ rpc.op = "RefreshToken"
    /\ rpc.code = OK
    /\ rpc.token # FirstRefreshToken
    /\ rpc.at > FirstRefreshToken[2].exp
    /\ parseToken(FirstRefreshToken, <<rpc.at, rpc.at>>).err # NoError
    /\ held.refreshToken[2].exp > SevenDays + FirstRefreshToken[2].exp

----------------------------------------------------------------------------
(* C28: e-mails stay reserved after soft delete *)

\* the rows of the accounts table with the e-mail, active or not
RowsWithEmail(accts, email) ==
    {i \in DOMAIN accts : accts[i].email = email}

\* the step answers a Register for an e-mail that a stored row has
RegisterStoredEmail ==
    /\ rpc' # rpc
    /\ rpc'.op = "Register"
    /\ RowsWithEmail(accounts, rpc'.email) # {}

\* C28 as stated: a Register with the e-mail of a stored account, active or
\* soft-deleted, fails with AlreadyExists
C28_EmailReservedAsStated ==
    [][RegisterStoredEmail
          => (rpc'.code = AlreadyExists /\ accounts' = accounts)]_vars

\* C28: a Register with the e-mail of a stored account, active or
\* soft-deleted, fails with AlreadyExists when password and name are given
\* and with InvalidArgument when not, and creates no account; no two rows
\* have the same e-mail, and a row keeps its e-mail
C28_EmailReserved ==
    [][/\ RegisterStoredEmail
              => /\ rpc'.code = IF rpc'.password = <<>> THEN InvalidArgument
                                ELSE AlreadyExists
                 /\ accounts' = accounts
                 /\ held' = held
       /\ \A e \in AccountEmails : Cardinality(RowsWithEmail(accounts', e)) <= 1
       /\ \A i \in DOMAIN accounts :
              i \in DOMAIN accounts' /\ accounts'[i].email = accounts[i].email]_vars

\* a Register with the e-mail of a deleted account was answered
\* AlreadyExists, and the deleted row is the only one with the e-mail
C28_Witness ==
    /\ rpc.op = "Register"
    /\ rpc.code = AlreadyExists
    /\ DeletedWithEmail(rpc.email) # {}
    /\ RowsWithEmail(accounts, rpc.email) = DeletedWithEmail(rpc.email)
    /\ \A i \in RowsWithEmail(accounts, rpc.email) : ~accounts[i].is_active

----------------------------------------------------------------------------
(* C29: concurrent CreateProduct calls with one SKU *)

\* the products in the table with the SKU
WithSKU(prods, sku) == {i \in DOMAIN prods : prods[i].sku = sku}

\* the ids of the CreateProduct calls for the SKU that succeeded
CreatedWithSKU(h, sku) == {i \in DOMAIN h : h[i].sku = sku}

\* the step answers a CreateProduct call for the SKU that passed the checks
\* of the request, at the GetBySKU check or after the INSERT
CreateProductAnswered(sku) ==
    /\ catRpc'.req.op = "CreateProduct"
    /\ catRpc'.req.sku = sku
    /\ catRpc'.req.name # <<>>
    /\ catRpc'.req.price > 0
    /\ catRpc'.req.stock >= 0
    /\ \/ catRpc' # catRpc
       \/ \E c \in Clients :
             inflight[c].op = "CreateProduct" /\ inflight'[c] = NoRequest

\* C29: under every interleaving of CreateProduct calls with one SKU, a
\* call is answered OK, AlreadyExists or Internal; it is answered OK only
\* when no product has the SKU, so that of the calls that succeeded all but
\* the last have been deleted since; a call that does not succeed leaves
\* the table as it is; and when a call has been answered exactly one
\* product has the SKU
C29_ConcurrentCreate ==
    [][\A sku \in SKUs :
          CreateProductAnswered(sku)
              => /\ catRpc'.code \in {OK, AlreadyExists, Internal}
                 /\ (catRpc'.code = OK)
                        => /\ WithSKU(products, sku) = {}
                           /\ CreatedWithSKU(history', sku) \ DOMAIN products'
                                  = CreatedWithSKU(history, sku)
                 /\ (catRpc'.code # OK)
                        => (products' = products /\ history' = history)
                 /\ Cardinality(WithSKU(products', sku)) = 1]_vars

\* two CreateProduct calls with one SKU both passed the GetBySKU check; one
\* has succeeded, the other was answered Internal at the INSERT, and one
\* product has the SKU
C29_Witness ==
    /\ catRpc.req.op = "CreateProduct"
    /\ catRpc.code = Internal
    /\ Cardinality(WithSKU(products, catRpc.req.sku)) = 1
    /\ CreatedWithSKU(history, catRpc.req.sku) = WithSKU(products, catRpc.req.sku)
    /\ \A c \in Clients : inflight[c] = NoRequest

----------------------------------------------------------------------------
(* C30: UpdateProduct and DeleteProduct on one product *)

\* the products that were created and have been deleted
DeletedProducts == DOMAIN history \ DOMAIN products

\* the step ends an UpdateProduct call for the product whose GetByID check
\* found the product
UpdateProductEnds(id) ==
    \E c \in Clients :
        /\ inflight[c].op = "UpdateProduct"
        /\ inflight[c].id = id
        /\ inflight'[c] = NoRequest

\* the step answers a call of the operation for the product
AnsweredFor(op, id) ==
    /\ catRpc' # catRpc
    /\ catRpc'.req.op = op
    /\ catRpc'.req.id = id

\* C30: a product that DeleteProduct has removed is never in the table
\* again; a GetProduct for it is answered NotFound; an UpdateProduct for it
\* whose GetByID check ran before the delete is answered Internal, and one
\* called after the delete is answered NotFound when its request is well
\* formed; neither changes the table
C30_NoResurrection ==
    [][\A id \in DeletedProducts :
          /\ id \notin DOMAIN products'
          /\ AnsweredFor("GetProduct", id) => (catRpc'.code = NotFound)
          /\ UpdateProductEnds(id)
                 => /\ catRpc'.req.op = "UpdateProduct"
                    /\ catRpc'.req.id = id
                    /\ catRpc'.code = Internal
                    /\ products' = products
          /\ (AnsweredFor("UpdateProduct", id) /\ ~UpdateProductEnds(id))
                 => /\ catRpc'.code \in {NotFound, InvalidArgument}
                    /\ (catRpc'.code = InvalidArgument)
                           => \/ catRpc'.req.name = <<>>
                              \/ catRpc'.req.price <= 0
                              \/ catRpc'.req.stock < 0]_vars

\* an UpdateProduct whose GetByID check found the product was answered
\* Internal after the product was deleted, and the product is not in the table
C30_Witness ==
    /\ catRpc.req.op = "UpdateProduct"
    /\ catRpc.code = Internal
    /\ catRpc.req.id \in DeletedProducts
    /\ RepoGetProductByID(products, catRpc.req.id).err = ErrProductNotFound

====
